---- MODULE Spec2Model ----
(***************************************************************************)
(* Model of the visa-voyager agent services: the self-correcting search   *)
(* loop searchVisaInfo, the AgentSession wrapper it runs on, the source    *)
(* reconciliation step and the evaluator with its guardrail.               *)
(*                                                                         *)
(* The repository holds two copies of the service file.  The variable     *)
(* `variant` selects the copy an invocation runs:                          *)
(*   "services" - src/services/gemini.ts                                   *)
(*   "unnamed"  - src/unnamed/part_000                                     *)
(*                                                                         *)
(* JavaScript values: a missing property is the string Absent for atomic  *)
(* strings and booleans, a record with k = "undefined" for numbers and    *)
(* for strings that take part in concatenation.  A string that is built   *)
(* by concatenation is the sequence of its pieces.                         *)
(***************************************************************************)
EXTENDS Integers, Sequences, FiniteSets, TLC

VARIABLES
  variant,         \* which copy of the service file runs
  pc,              \* position of the searchVisaInfo invocation
  onProgress,      \* whether the caller supplied a progress callback
  attempts,        \* let attempts
  currentData,     \* let currentData
  currentSources,  \* let currentSources
  verification,    \* let verification
  chat,            \* visaConsultant.chat: "null" or "chat"
  chatTurns,       \* prompts sent on the current conversation handle
  progress,        \* stage labels delivered to the progress callback
  requests,        \* every prompt sent through visaConsultant.run, in order
  evalCalls,       \* number of evaluator generation calls issued
  log,             \* per completed attempt: sources empty?, score, reasoning
  last,            \* the most recent completed attempt: index, data, sources, verification
  outcome,         \* what the invocation gave its caller
  evalText,        \* kind of the evaluator text the last step received, or "none"
  failure,         \* the service call that rejected, with the calls issued until then
  allParseable,    \* every response text of the invocation so far was valid JSON
  runText,         \* kind of the consultant text the last step received, or "none"
  recIn,           \* input of the source reconciliation under study
  recOut,          \* its output
  sessions,        \* travelGuide and legalDrafter: conversation handle and its turns
  shot,            \* the single-request orchestrator call under way or just over
  lastSend,        \* the most recent sendMessage: who sent, and the turns it built on
  resetMark,       \* number of sends issued before the latest clearSession call
  ui,              \* VisaSearch component state: step, isLoading, error
  invs,            \* service invocations started by the VisaSearch handlers
  pair,            \* two searchVisaInfo runs fed the same service responses
  app,             \* App and PolicyResults component state, calls under way
  doc              \* DocBuilder component state and the passport scans started

vars == << variant, pc, onProgress, attempts, currentData, currentSources,
           verification, chat, chatTurns, progress, requests,
           evalCalls, log, last, outcome, evalText, failure, allParseable,
           runText, recIn, recOut, sessions, shot, lastSend, resetMark,
           ui, invs, pair, app, doc >>

\* The variables the search loop never reads or writes.
auxVars == << sessions, shot, lastSend, resetMark, ui, invs, pair, app, doc >>

(***************************************************************************)
(* JavaScript values                                                       *)
(***************************************************************************)
Absent == "undefined"

Num(n) == [k |-> "number", v |-> n]
UndefNum == [k |-> "undefined", v |-> 0]
NaN == [k |-> "NaN", v |-> 0]

Str(s) == [k |-> "string", s |-> s]
UndefStr == [k |-> "undefined", s |-> << >>]

\* Math.min(a, b): NaN as soon as one argument does not convert to a number.
MathMin(a, b) ==
  IF a.k = "number" /\ b.k = "number"
  THEN Num(IF a.v <= b.v THEN a.v ELSE b.v)
  ELSE NaN

\* a >= n in JavaScript: false for undefined and NaN.
JsGe(a, n) == a.k = "number" /\ a.v >= n

\* a <= n in JavaScript: false for undefined and NaN.
JsLe(a, n) == a.k = "number" /\ a.v <= n

\* a < n in JavaScript.
JsLt(a, n) == a.k = "number" /\ a.v < n

\* String(a) as string concatenation and template literals compute it.
ToPieces(a) == IF a.k = "string" THEN a.s ELSE << "undefined" >>

\* (a || "")
OrEmpty(a) == IF a.k = "string" THEN a.s ELSE << >>

(***************************************************************************)
(* Bounds and input domains                                                *)
(***************************************************************************)
\* Longest explicit source list and longest grounding-chunk list given to
\* the reconciliation when it is studied on its own.
MaxSources == 2

MAX_RETRIES == 2

ScoreVals == {3, 7, 8, 9, 10}
Scores == {UndefNum} \cup {Num(n) : n \in ScoreVals}
Passes == {Absent, "true", "false"}
Reasonings == {UndefStr, Str(<< "critA" >>)}

Titles == {"t1", "t2"}
Uris == {Absent, "u1", "u2"}
Citations == [title : Titles, uri : Uris]
\* A grounding chunk either has a web part (title, uri) or has none.
Chunks == [web : {TRUE}, title : Titles, uri : Uris]
            \cup {[web |-> FALSE, title |-> Absent, uri |-> Absent]}

SeqsUpTo(S, n) == UNION {[1..m -> S] : m \in 0..n}

Errors == {"NetworkError", "QuotaError"}

\* An array-valued property: present with its elements, or missing.
Arr(a) == [k |-> "array", a |-> a]
UndefArr == [k |-> "undefined", a |-> << >>]

EmptyData ==
  [visaStatus |-> Absent, summary |-> Absent, timeline |-> Absent,
   whatsNext |-> UndefArr, requirements |-> UndefArr,
   hasSources |-> FALSE, sources |-> << >>]

\* The structured answers the consultant gives in the search loop.
AnswerData ==
  {EmptyData} \cup
  [visaStatus : {"visa_free"}, summary : {"sumA", "sumB"},
   timeline : {"tlA"}, whatsNext : {Arr(<< "step1" >>)},
   requirements : {Arr(<< "req1" >>)}, hasSources : {TRUE},
   sources : {<< >>, << [title |-> "t1", uri |-> "u1"] >>}]

AnswerChunks ==
  {<< >>, << [web |-> TRUE, title |-> "t2", uri |-> "u1"] >>}

\* A consultant response: its text (by kind), the object the text encodes
\* when it is JSON, and the grounding chunks of the raw envelope.
ConsultantResponses ==
  {[text |-> t, data |-> EmptyData, chunks |-> << >>] :
      t \in {"absent", "empty", "invalid"}}
  \cup [text : {"json"}, data : AnswerData, chunks : AnswerChunks]

EmptyEval == [score |-> UndefNum, pass |-> Absent, reasoning |-> UndefStr]

\* An evaluator response: its text (by kind; "empty" stands for every falsy
\* text, absent or "") and the object it encodes.
EvaluatorResponses ==
  {[text |-> t, obj |-> EmptyEval] : t \in {"empty", "invalid"}}
  \cup [text : {"json"},
        obj : [score : Scores, pass : Passes, reasoning : Reasonings]]

(***************************************************************************)
(* Source reconciliation                                                   *)
(***************************************************************************)
\* currentData.sources || []
jsonSources(data) == IF data.hasSources THEN data.sources ELSE << >>

\* groundingChunks?.map(chunk => chunk.web ? {title, uri} : null).filter(Boolean)
metadataSources(chunks) ==
  LET F[i \in 0..Len(chunks)] ==
        IF i = 0 THEN << >>
        ELSE IF chunks[i].web
             THEN Append(F[i - 1], [title |-> chunks[i].title, uri |-> chunks[i].uri])
             ELSE F[i - 1]
  IN F[Len(chunks)]

\* Mutation of allSources: the grounding citations placed first.
allSourcesImplicitFirst(data, chunks) == metadataSources(chunks) \o jsonSources(data)

allSources(data, chunks) == jsonSources(data) \o metadataSources(chunks)

HasUri(list, u) == \E j \in 1..Len(list) : list[j].uri = u

\* Mutation of Reconcile: the citations of the earlier attempts carried over.
ReconcileAccumulating(v, data, chunks) ==
  LET F[i \in 0..Len(currentSources \o allSources(data, chunks))] ==
        IF i = 0 THEN << >>
        ELSE IF HasUri(F[i - 1], (currentSources \o allSources(data, chunks))[i].uri)
             THEN F[i - 1]
             ELSE Append(F[i - 1], (currentSources \o allSources(data, chunks))[i])
  IN F[Len(currentSources \o allSources(data, chunks))]

\* Mutation of uniqueSourcesMap: the has() test dropped.
uniqueSourcesMapNoHas(all) == SelectSeq(all, LAMBDA c : c.uri # Absent)

\* src/services/gemini.ts: forEach with `s.uri && !uniqueSourcesMap.has(s.uri)`.
uniqueSourcesMap(all) ==
  LET F[i \in 0..Len(all)] ==
        IF i = 0 THEN << >>
        ELSE IF all[i].uri # Absent /\ ~HasUri(F[i - 1], all[i].uri)
             THEN Append(F[i - 1], all[i])
             ELSE F[i - 1]
  IN F[Len(all)]

\* src/unnamed/part_000: new Map(allSources.map(s => [s.uri, s])).values().
\* A Map keeps the position of a key's first insertion and the value of its
\* last one; undefined is a key like any other.
MapValues(all) ==
  LET F[i \in 0..Len(all)] ==
        IF i = 0 THEN << >>
        ELSE IF HasUri(F[i - 1], all[i].uri)
             THEN [j \in 1..Len(F[i - 1]) |->
                     IF F[i - 1][j].uri = all[i].uri THEN all[i] ELSE F[i - 1][j]]
             ELSE Append(F[i - 1], all[i])
  IN F[Len(all)]

Reconcile(v, data, chunks) ==
  IF v = "services" THEN uniqueSourcesMap(allSources(data, chunks))
  ELSE MapValues(allSources(data, chunks))

(***************************************************************************)
(* Evaluator output and guardrail                                          *)
(***************************************************************************)
\* The literal JSON.parse falls back to when the evaluator text is falsy.
EvalFallback(v) ==
  IF v = "services"
  THEN [score |-> Num(0), pass |-> "false",
        reasoning |-> Str(<< "Evaluation failed" >>)]
  ELSE [score |-> Num(0), pass |-> Absent, reasoning |-> UndefStr]

\* JSON.parse(evalResponse.text || fallback); "invalid" text throws.
ParseEval(v, resp) ==
  IF resp.text = "json" THEN resp.obj ELSE EvalFallback(v)

\* Mutation of Guardrail: the evaluator's verdict left as it came.
GuardrailNoCap(v, ver, sources) == ver

\* if (currentSources.length === 0) { ... }
Guardrail(v, ver, sources) ==
  IF Len(sources) # 0 THEN ver
  ELSE IF v = "services"
  THEN [score |-> MathMin(ver.score, Num(5)),
        pass |-> "false",
        reasoning |-> Str(OrEmpty(ver.reasoning) \o << " Missing official source links." >>)]
  ELSE [score |-> MathMin(ver.score, Num(5)),
        pass |-> ver.pass,
        reasoning |-> Str(ToPieces(ver.reasoning) \o << " Missing official sources." >>)]

\* Mutation of Accepts: the threshold taken as exclusive.
AcceptsAbove(ver) == JsGe(ver.score, 9)

\* if (verification.score >= 8) break;
Accepts(ver) == JsGe(ver.score, 8)

(***************************************************************************)
(* Prompts and the returned record                                         *)
(***************************************************************************)
InitialPrompt == [kind |-> "initial", critique |-> << >>]
RetryPrompt(ver) == [kind |-> "retry", critique |-> ToPieces(ver.reasoning)]

\* Mutation of PromptFor: the retry prompt quotes the critique of the oldest
\* finished attempt instead of the latest one.
PromptForStale(n, ver) ==
  IF n > 0
  THEN RetryPrompt(IF Len(log) >= 1 THEN [reasoning |-> log[1].reasoning] ELSE ver)
  ELSE InitialPrompt

\* let prompt = ...; if (attempts > 0) prompt = ...
PromptFor(n, ver) == IF n > 0 THEN RetryPrompt(ver) ELSE InitialPrompt

\* Mutation of StageFor: the label of the first attempt given on every attempt.
StageForInitial(n) == << "Consulting Official Sources", 1 >>

StageFor(n) == IF n > 0 THEN << "Self-Correcting", n + 1 >> ELSE << "Consulting Official Sources", 1 >>
StageVerify == << "Verifying Accuracy", 0 >>

\* (x || d) for a string-valued property: undefined and "" are falsy.
Or(x, d) == IF x \in {Absent, ""} THEN d ELSE x

\* (a || []) for an array-valued property.
OrNone(a) == IF a.k = "array" THEN a.a ELSE << >>

\* The object of the return statement.
PolicyRecord(data, sources, ver) ==
  [visaStatus |-> Or(data.visaStatus, "unknown"),
   summary |-> Or(data.summary, "Summary not available"),
   timeline |-> Or(data.timeline, "Check official sources"),
   whatsNext |-> OrNone(data.whatsNext),
   requirements |-> OrNone(data.requirements),
   sources |-> sources,
   verification |-> ver]

NoOutcome == [kind |-> "none"]
Returned(rec) == [kind |-> "record", record |-> rec]
Raised(e) == [kind |-> "error", error |-> e]

(***************************************************************************)
(* AgentSession (the visaConsultant instance)                              *)
(***************************************************************************)
\* Mutation of clearSession: the conversation handle is kept.
clearSessionKeepsHandle == chat

\* clearSession(): this.chat = null; this.history = [].
clearSession == "null"

\* getSession(): the handle after the lazy creation.
getSession(c) == IF c = "null" THEN "chat" ELSE c

\* Mutation of TurnsOf: the evaluator's exchange recorded on the handle.
TurnsOfWithEvaluation(c, turns) ==
  IF c = "null" THEN << >>
  ELSE Append(turns, [kind |-> "evaluation", critique |-> << >>])

\* The turns of the conversation the next send goes to: a handle created by
\* getSession starts from this.history, which is always [].
TurnsOf(c, turns) == IF c = "null" THEN << >> ELSE turns

Notify(cb, trail, stage) == IF cb THEN Append(trail, stage) ELSE trail

(***************************************************************************)
(* searchVisaInfo                                                          *)
(***************************************************************************)
NoFailure == [error |-> "none", requests |-> 0, evals |-> 0]

\* Mutation of LoopContinues: one iteration too many.
LoopContinuesOffByOne(n) == n <= MAX_RETRIES + 1

\* Mutation of LoopContinues: one iteration too few.
LoopContinuesOneLess(n) == n <= MAX_RETRIES - 1

\* while (attempts <= MAX_RETRIES)
LoopContinues(n) == n <= MAX_RETRIES

NoAttempt ==
  [index |-> -1, data |-> EmptyData, sources |-> << >>,
   ver |-> [score |-> Num(0), pass |-> "false", reasoning |-> Str(<< >>)]]

InitialVerification ==
  [score |-> Num(0), pass |-> "false", reasoning |-> Str(<< >>)]

\* Mutation of SendRequest: the session cleared at the head of every attempt.
SendRequestResetting(n, ver, c, turns, trail) ==
  /\ attempts' = n
  /\ progress' = Notify(onProgress, trail, StageFor(n))
  /\ chat' = getSession(clearSession)
  /\ chatTurns' = TurnsOf(clearSession, turns)
  /\ requests' = Append(requests, PromptFor(n, ver))
  /\ pc' = "awaitRun"

\* The head of one loop iteration up to the await of visaConsultant.run:
\* build the prompt, notify, create the conversation if needed, send.
SendRequest(n, ver, c, turns, trail) ==
  /\ attempts' = n
  /\ progress' = Notify(onProgress, trail, StageFor(n))
  /\ chat' = getSession(c)
  /\ chatTurns' = TurnsOf(c, turns)
  /\ requests' = Append(requests, PromptFor(n, ver))
  /\ pc' = "awaitRun"

\* The highest numeric score among the finished attempts and ver.
BestScore(ver) ==
  LET nums == {log[i].score.v : i \in {j \in 1..Len(log) : log[j].score.k = "number"}}
              \cup (IF ver.score.k = "number" THEN {ver.score.v} ELSE {})
  IN IF nums = {} THEN ver.score
     ELSE Num(CHOOSE m \in nums : \A x \in nums : x <= m)

\* Mutation of ReturnRecord: best-of selection of the attached score.
ReturnBestScored(data, sources, ver) ==
  /\ pc' = "returned"
  /\ outcome' = Returned(PolicyRecord(data, sources,
                                      [ver EXCEPT !.score = BestScore(ver)]))

\* Mutation of ReturnRecord: a low final score raised as an error.
ReturnOrThrowLowQuality(data, sources, ver) ==
  /\ pc' = IF JsGe(ver.score, 8) THEN "returned" ELSE "raised"
  /\ outcome' = IF JsGe(ver.score, 8)
                THEN Returned(PolicyRecord(data, sources, ver))
                ELSE Raised("LowQuality")

\* The return statement after the loop.
ReturnRecord(data, sources, ver) ==
  /\ pc' = "returned"
  /\ outcome' = Returned(PolicyRecord(data, sources, ver))

\* Mutation of Rethrow: a service error swallowed once an earlier attempt
\* left data, the record of that attempt returned instead.
RethrowOrFallBack(e) ==
  /\ pc' = IF e \in Errors /\ Len(log) > 0 THEN "returned" ELSE "raised"
  /\ outcome' = IF e \in Errors /\ Len(log) > 0
                THEN Returned(PolicyRecord(currentData, currentSources, verification))
                ELSE Raised(e)

\* Mutation of Rethrow: the catch block sends the request again.
RetryOnError(e) ==
  /\ pc' = "awaitRun"
  /\ outcome' = outcome

\* catch (error) { console.error(...); throw error; }
Rethrow(e) ==
  /\ pc' = "raised"
  /\ outcome' = Raised(e)

\* A call of searchVisaInfo up to its first await.
Call(cb) ==
  /\ pc \in {"idle", "returned", "raised"}
  /\ onProgress' = cb
  /\ currentData' = EmptyData
  /\ currentSources' = << >>
  /\ verification' = InitialVerification
  /\ requests' = << InitialPrompt >>
  /\ evalCalls' = 0
  /\ log' = << >>
  /\ last' = NoAttempt
  /\ outcome' = NoOutcome
  /\ evalText' = "none"
  /\ failure' = NoFailure
  /\ allParseable' = TRUE
  /\ attempts' = 0
  /\ progress' = Notify(cb, << >>, StageFor(0))
  /\ runText' = "none"
  /\ chat' = getSession(clearSession)
  /\ chatTurns' = TurnsOf(clearSession, chatTurns)
  /\ pc' = "awaitRun"
  /\ UNCHANGED << variant, recIn, recOut, auxVars >>

\* sendMessage rejects: run rejects, the catch block rethrows.
RunFails(e) ==
  /\ pc = "awaitRun"
  /\ Rethrow(e)
  /\ evalText' = "none"
  /\ runText' = "none"
  /\ failure' = [error |-> e, requests |-> Len(requests), evals |-> evalCalls]
  /\ UNCHANGED << variant, onProgress, attempts, currentData, currentSources,
                  verification, chat, chatTurns, progress, requests,
                  evalCalls, log, last, allParseable, recIn, recOut, auxVars >>

\* Whether the evaluator call can be built from the consultant text: in
\* src/services/gemini.ts evaluateOutput takes content.substring(0, 3000).
CanBuildEvalCall(v, text) == v = "unnamed" \/ text # "absent"

\* The code that runs once sendMessage has resolved: parse, reconcile,
\* notify, issue the evaluator call.
AfterRun(resp) ==
  /\ pc = "awaitRun"
  /\ chatTurns' = Append(chatTurns, requests[Len(requests)])
  /\ evalText' = "none"
  /\ runText' = resp.text
  /\ allParseable' = (allParseable /\ resp.text = "json")
  /\ IF resp.text = "invalid"
     THEN /\ Rethrow("SyntaxError")
          /\ UNCHANGED << currentData, currentSources, progress, evalCalls >>
     ELSE LET data == IF resp.text = "json" THEN resp.data ELSE EmptyData IN
          /\ currentData' = data
          /\ currentSources' = Reconcile(variant, data, resp.chunks)
          /\ progress' = Notify(onProgress, progress, StageVerify)
          /\ IF CanBuildEvalCall(variant, resp.text)
             THEN /\ evalCalls' = evalCalls + 1
                  /\ pc' = "awaitEval"
                  /\ UNCHANGED outcome
             ELSE /\ Rethrow("TypeError")
                  /\ UNCHANGED evalCalls
  /\ UNCHANGED << variant, onProgress, attempts, verification, chat, requests,
                  log, last, failure, recOut, auxVars >>

\* sendMessage resolves.
RunReturns(resp) == AfterRun(resp) /\ UNCHANGED recIn

\* generateContent of the evaluator rejects.
EvalFails(e) ==
  /\ pc = "awaitEval"
  /\ Rethrow(e)
  /\ evalText' = "none"
  /\ runText' = "none"
  /\ failure' = [error |-> e, requests |-> Len(requests), evals |-> evalCalls]
  /\ UNCHANGED << variant, onProgress, attempts, currentData, currentSources,
                  verification, chat, chatTurns, progress, requests,
                  evalCalls, log, last, allParseable, recIn, recOut, auxVars >>

\* generateContent of the evaluator resolves: parse, guardrail, then break,
\* or attempts++ and either the next iteration or the end of the loop.
EvalReturns(resp) ==
  /\ pc = "awaitEval"
  /\ evalText' = resp.text
  /\ runText' = "none"
  /\ allParseable' = (allParseable /\ resp.text = "json")
  /\ IF resp.text = "invalid"
     THEN /\ Rethrow("SyntaxError")
          /\ UNCHANGED << attempts, verification, chat, chatTurns, progress,
                          requests, log, last >>
     ELSE LET ver == Guardrail(variant, ParseEval(variant, resp), currentSources) IN
          /\ verification' = ver
          /\ log' = Append(log, [empty |-> Len(currentSources) = 0,
                                 score |-> ver.score, reasoning |-> ver.reasoning])
          /\ last' = [index |-> attempts, data |-> currentData,
                      sources |-> currentSources, ver |-> ver]
          /\ IF Accepts(ver)
             THEN /\ ReturnRecord(currentData, currentSources, ver)
                  /\ UNCHANGED << attempts, chat, chatTurns, progress, requests >>
             ELSE IF LoopContinues(attempts + 1)
             THEN /\ SendRequest(attempts + 1, ver, chat, chatTurns, progress)
                  /\ UNCHANGED outcome
             ELSE /\ attempts' = attempts + 1
                  /\ ReturnRecord(currentData, currentSources, ver)
                  /\ UNCHANGED << chat, chatTurns, progress, requests >>
  /\ UNCHANGED << variant, onProgress, currentData, currentSources,
                  evalCalls, failure, recIn, recOut, auxVars >>

(***************************************************************************)
(* Rest values of the variables the search loop does not use               *)
(***************************************************************************)
OtherPersonas == {"guide", "drafter"}

NoSessions == [p \in OtherPersonas |-> [chat |-> "null", turns |-> << >>]]

NoShot == [fn |-> "none", pc |-> "idle", outcome |-> NoOutcome]

NoSend == [fn |-> "none", persona |-> "none", reset |-> FALSE, context |-> << >>]

\* VisaSearch as mounted: useState('LOCATION'), useState(false), useState(''),
\* no purpose selected.
NoUi ==
  [step |-> "LOCATION", isLoading |-> FALSE, error |-> FALSE,
   selected |-> FALSE, mounted |-> TRUE]

\* currentPolicy when it is null.
NoPolicy == [id |-> 0, score |-> UndefNum]

\* App as mounted: useState(AppSection.SEARCH), useState(null), useState([]);
\* no policy found yet, no call under way.
NoApp ==
  [activeSection |-> "SEARCH", currentPolicy |-> NoPolicy, checklistItems |-> << >>,
   \* the policy whose generation call produced checklistItems (0: none)
   itemsOf |-> 0,
   \* the position of the item the latest toggle was clicked on (0: none)
   clicked |-> 0,
   \* PolicyResults: useState(false), useState(false)
   isGenerating |-> FALSE, showPreliminaryDetails |-> FALSE,
   \* VisaSearch: useState(false)
   isLoading |-> FALSE,
   \* policies found so far; handlePurposeSubmit and handleStartApplication
   \* calls that await their service call
   found |-> 0, searches |-> << >>, gens |-> << >>]

\* DocBuilder as mounted: useState(false) for isScanning, the two form
\* fields a scan is needed for empty, no file chosen yet.
NoDoc ==
  [isScanning |-> FALSE,
   formData |-> [name |-> "", passportNumber |-> ""],
   scans |-> << >>]

AuxInit ==
  /\ sessions = NoSessions
  /\ shot = NoShot
  /\ lastSend = NoSend
  /\ resetMark = 0
  /\ ui = NoUi
  /\ invs = << >>
  /\ pair = << >>
  /\ app = NoApp
  /\ doc = NoDoc

(***************************************************************************)
(* Specification of the search loop                                        *)
(***************************************************************************)
Init ==
  /\ variant \in {"services", "unnamed"}
  /\ pc = "idle"
  /\ onProgress = FALSE
  /\ attempts = 0
  /\ currentData = EmptyData
  /\ currentSources = << >>
  /\ verification = InitialVerification
  /\ chat = "null"
  /\ chatTurns = << >>
  /\ progress = << >>
  /\ requests = << >>
  /\ evalCalls = 0
  /\ log = << >>
  /\ last = NoAttempt
  /\ outcome = NoOutcome
  /\ evalText = "none"
  /\ failure = NoFailure
  /\ allParseable = TRUE
  /\ runText = "none"
  /\ recIn = << << >>, << >> >>
  /\ recOut = << >>
  /\ AuxInit

Next ==
  \/ \E cb \in BOOLEAN : Call(cb)
  \/ \E e \in Errors : RunFails(e)
  \/ \E resp \in ConsultantResponses : RunReturns(resp)
  \/ \E e \in Errors : EvalFails(e)
  \/ \E resp \in EvaluatorResponses : EvalReturns(resp)

Spec == Init /\ [][Next]_vars

(***************************************************************************)
(* Specification of the search loop with the inputs of the latest          *)
(* reconciliation on record: the explicit list, the grounding chunks and   *)
(* the parsed object of the latest consultant response.  The consultant    *)
(* cites a different page, or none, from one attempt to the next.          *)
(***************************************************************************)
AttemptData ==
  {EmptyData} \cup
  [visaStatus : {"visa_free"}, summary : {"sumA", "sumB"},
   timeline : {"tlA"}, whatsNext : {Arr(<< "step1" >>)},
   requirements : {Arr(<< "req1" >>)}, hasSources : {TRUE},
   sources : {<< >>, << [title |-> "t1", uri |-> "u1"] >>,
              << [title |-> "t1", uri |-> "u2"] >>}]

AttemptConsultantResponses ==
  {[text |-> t, data |-> EmptyData, chunks |-> << >>] :
      t \in {"absent", "empty", "invalid"}}
  \cup [text : {"json"}, data : AttemptData, chunks : AnswerChunks]

AttemptEvaluatorResponses ==
  {[text |-> "empty", obj |-> EmptyEval]}
  \cup [text : {"json"},
        obj : [score : {Num(3), Num(7), Num(9)}, pass : {"true"},
               reasoning : {Str(<< "critA" >>)}]]

\* sendMessage resolves; the response's parsed object, explicit list and
\* grounding chunks are put on record.
AttemptRunReturns(resp) ==
  /\ AfterRun(resp)
  /\ recIn' = << jsonSources(resp.data), resp.chunks, resp.data >>

NextAttempts ==
  \/ \E cb \in BOOLEAN : Call(cb)
  \/ \E e \in Errors : RunFails(e)
  \/ \E resp \in AttemptConsultantResponses : AttemptRunReturns(resp)
  \/ \E e \in Errors : EvalFails(e)
  \/ \E resp \in AttemptEvaluatorResponses : EvalReturns(resp)

SpecAttempts == Init /\ [][NextAttempts]_vars

(***************************************************************************)
(* Specification of the search loop under the assumption that a service    *)
(* call that was issued is answered: it resolves or it rejects.  Whether   *)
(* and when searchVisaInfo is called again is left open.                   *)
(***************************************************************************)
LiveConsultantResponses ==
  {[text |-> t, data |-> EmptyData, chunks |-> << >>] :
      t \in {"absent", "empty", "invalid"}}
  \cup [text : {"json"}, data : AttemptData, chunks : {<< >>}]

\* Scores low, high, missing, and no text at all.
LiveEvaluatorResponses ==
  {[text |-> t, obj |-> EmptyEval] : t \in {"empty", "invalid", "json"}}
  \cup [text : {"json"},
        obj : [score : {Num(3), Num(9)}, pass : {"true"},
               reasoning : {Str(<< "critA" >>)}]]

\* The service answers the call the invocation awaits.
ServiceAnswers ==
  \/ \E e \in Errors : RunFails(e)
  \/ \E resp \in LiveConsultantResponses : RunReturns(resp)
  \/ \E e \in Errors : EvalFails(e)
  \/ \E resp \in LiveEvaluatorResponses : EvalReturns(resp)

NextLive ==
  \/ \E cb \in BOOLEAN : Call(cb)
  \/ ServiceAnswers

SpecLive == Init /\ [][NextLive]_vars /\ WF_vars(ServiceAnswers)

(***************************************************************************)
(* Specification of the source reconciliation on its own: the inputs are   *)
(* every explicit list and every grounding-chunk list up to MaxSources.    *)
(***************************************************************************)
DataWith(explicit) ==
  [EmptyData EXCEPT !.hasSources = TRUE, !.sources = explicit]

InitReconcile ==
  /\ variant \in {"services", "unnamed"}
  /\ pc = "reconcile"
  /\ onProgress = FALSE
  /\ attempts = 0
  /\ currentData = EmptyData
  /\ currentSources = << >>
  /\ verification = InitialVerification
  /\ chat = "null"
  /\ chatTurns = << >>
  /\ progress = << >>
  /\ requests = << >>
  /\ evalCalls = 0
  /\ log = << >>
  /\ last = NoAttempt
  /\ outcome = NoOutcome
  /\ evalText = "none"
  /\ failure = NoFailure
  /\ allParseable = TRUE
  /\ runText = "none"
  /\ recIn \in SeqsUpTo(Citations, MaxSources) \X SeqsUpTo(Chunks, MaxSources)
  /\ recOut = << >>
  /\ AuxInit

\* The AGGREGATE SOURCES block of one loop iteration.
AggregateSources ==
  /\ pc = "reconcile"
  /\ recOut' = Reconcile(variant, DataWith(recIn[1]), recIn[2])
  /\ pc' = "reconciled"
  /\ UNCHANGED << variant, onProgress, attempts, currentData, currentSources,
                  verification, chat, chatTurns, progress, requests, evalCalls,
                  log, last, outcome, evalText, failure, allParseable, runText,
                  recIn, auxVars >>

NextReconcile == AggregateSources

SpecReconcile == InitReconcile /\ [][NextReconcile]_vars

(***************************************************************************)
(* Specification of one AgentSession under its public methods: any         *)
(* sequence of clearSession() and run() calls, one send under way at a     *)
(* time.  A prompt is the number of the send that carries it.              *)
(***************************************************************************)
\* Sends issued on the session under study.
MaxRuns == 4

InitSession ==
  /\ variant \in {"services", "unnamed"}
  /\ pc = "idle"
  /\ onProgress = FALSE
  /\ attempts = 0
  /\ currentData = EmptyData
  /\ currentSources = << >>
  /\ verification = InitialVerification
  /\ chat = "null"
  /\ chatTurns = << >>
  /\ progress = << >>
  /\ requests = << >>
  /\ evalCalls = 0
  /\ log = << >>
  /\ last = NoAttempt
  /\ outcome = NoOutcome
  /\ evalText = "none"
  /\ failure = NoFailure
  /\ allParseable = TRUE
  /\ runText = "none"
  /\ recIn = << << >>, << >> >>
  /\ recOut = << >>
  /\ AuxInit

sessionFrame ==
  << variant, onProgress, attempts, currentData, currentSources, verification,
     progress, evalCalls, log, last, evalText, allParseable,
     runText, recIn, recOut, sessions, shot, ui, invs, pair, app, doc >>

\* clearSession()
SessionClear ==
  /\ pc \in {"idle", "cleared", "failed"}
  /\ chat' = clearSession
  /\ chatTurns' = TurnsOf(clearSession, chatTurns)
  /\ resetMark' = Len(requests)
  /\ pc' = "cleared"
  /\ UNCHANGED << requests, lastSend, outcome, failure >>
  /\ UNCHANGED sessionFrame

\* run(prompt) up to the await of sendMessage.
SessionRun ==
  /\ pc \in {"idle", "cleared", "failed"}
  /\ Len(requests) < MaxRuns
  /\ chat' = getSession(chat)
  /\ chatTurns' = TurnsOf(chat, chatTurns)
  /\ requests' = Append(requests, Len(requests) + 1)
  /\ lastSend' = [fn |-> "run", persona |-> "session", reset |-> pc = "cleared",
                  context |-> TurnsOf(chat, chatTurns)]
  /\ pc' = "awaitSend"
  /\ outcome' = NoOutcome
  /\ failure' = NoFailure
  /\ UNCHANGED resetMark
  /\ UNCHANGED sessionFrame

\* sendMessage resolves: the conversation holds the turn from now on and
\* run returns { text, raw }.
SessionSendResolves ==
  /\ pc = "awaitSend"
  /\ chatTurns' = Append(chatTurns, requests[Len(requests)])
  /\ outcome' = Returned("response")
  /\ pc' = "idle"
  /\ UNCHANGED << chat, requests, lastSend, resetMark, failure >>
  /\ UNCHANGED sessionFrame

\* Mutation of SessionSendRejects: the send repeated once more on failure.
SessionSendRejectsRetrying(e) ==
  /\ pc = "awaitSend"
  /\ Len(requests) < MaxRuns
  /\ requests' = Append(requests, Len(requests) + 1)
  /\ UNCHANGED << pc, chat, chatTurns, lastSend, resetMark, outcome, failure >>
  /\ UNCHANGED sessionFrame

\* sendMessage rejects with e: the await in run throws, run has no catch
\* block, so its promise rejects with e; the turn is not part of the
\* conversation.
SessionSendRejects(e) ==
  /\ pc = "awaitSend"
  /\ outcome' = Raised(e)
  /\ failure' = [error |-> e, requests |-> Len(requests), evals |-> 0]
  /\ pc' = "failed"
  /\ UNCHANGED << chat, chatTurns, requests, lastSend, resetMark >>
  /\ UNCHANGED sessionFrame

NextSession ==
  \/ SessionClear
  \/ SessionRun
  \/ SessionSendResolves
  \/ \E e \in Errors : SessionSendRejects(e)

SpecSession == InitSession /\ [][NextSession]_vars

(***************************************************************************)
(* The single-request orchestrators and the persona sessions               *)
(***************************************************************************)
OneShots ==
  {"getCommonVisaPurposes", "getTravelAdvisory",
   "generateDocumentChecklist", "generateVisaDocument"}

\* Mutation of PersonaOf: the travel advisory run on the consultant's session.
PersonaOfShared(fn) ==
  IF fn \in {"getCommonVisaPurposes", "searchVisaInfo", "getTravelAdvisory"}
  THEN "consultant" ELSE "drafter"

\* The AgentSession instance a function runs on.
PersonaOf(fn) ==
  IF fn \in {"getCommonVisaPurposes", "searchVisaInfo"} THEN "consultant"
  ELSE IF fn = "getTravelAdvisory" THEN "guide"
  ELSE "drafter"

\* Whether the function calls clearSession() before its first run.
ResetsFirst(fn) ==
  fn \in {"getCommonVisaPurposes", "getTravelAdvisory", "searchVisaInfo"}

SessionOf(p) ==
  IF p = "consultant" THEN [chat |-> chat, turns |-> chatTurns] ELSE sessions[p]

SetSession(p, v) ==
  IF p = "consultant"
  THEN /\ chat' = v.chat
       /\ chatTurns' = v.turns
       /\ UNCHANGED sessions
  ELSE /\ sessions' = [sessions EXCEPT ![p] = v]
       /\ UNCHANGED << chat, chatTurns >>

\* The prompt of a single-request orchestrator, by the function that sends it.
ShotPrompt(fn) == [kind |-> fn, critique |-> << >>]

ShotTexts == {"absent", "empty", "invalid", "json"}

\* What the function makes of the response text: generateVisaDocument
\* returns the text as it is, the others JSON.parse(text || "[]").
ShotResult(fn, text) ==
  IF fn = "generateVisaDocument" THEN Returned(text)
  ELSE IF text = "invalid" THEN Raised("SyntaxError")
  ELSE IF text = "json" THEN Returned("items")
  ELSE Returned("[]")

\* Longest conversation a session that is never reset is followed to.
MaxTurns == 2

shotFrame ==
  << variant, pc, onProgress, attempts, currentData, currentSources,
     verification, progress, requests, evalCalls, log, last, outcome,
     evalText, failure, allParseable, runText, recIn, recOut,
     resetMark, ui, invs, pair, app, doc >>

\* A call of a single-request orchestrator up to the await of its run.
ShotCall(fn) ==
  LET p == PersonaOf(fn)
      c == IF ResetsFirst(fn) THEN clearSession ELSE SessionOf(p).chat
      turns == TurnsOf(c, SessionOf(p).turns)
  IN /\ shot.pc # "await"
     /\ Len(turns) < MaxTurns
     /\ SetSession(p, [chat |-> getSession(c), turns |-> turns])
     /\ lastSend' = [fn |-> fn, persona |-> p, reset |-> ResetsFirst(fn),
                     context |-> turns]
     /\ shot' = [fn |-> fn, pc |-> "await", outcome |-> NoOutcome]
     /\ UNCHANGED shotFrame

\* sendMessage resolves: the turn joins the conversation, the function
\* parses the text and returns or throws.
ShotResolves(text) ==
  LET p == PersonaOf(shot.fn)
      res == ShotResult(shot.fn, text)
  IN /\ shot.pc = "await"
     /\ SetSession(p, [SessionOf(p) EXCEPT
                         !.turns = Append(@, ShotPrompt(shot.fn))])
     /\ shot' = [shot EXCEPT !.pc = IF res.kind = "error" THEN "raised" ELSE "returned",
                             !.outcome = res]
     /\ UNCHANGED lastSend
     /\ UNCHANGED shotFrame

\* sendMessage rejects: the function rejects with the same error.
ShotRejects(e) ==
  /\ shot.pc = "await"
  /\ shot' = [shot EXCEPT !.pc = "raised", !.outcome = Raised(e)]
  /\ UNCHANGED << chat, chatTurns, sessions, lastSend >>
  /\ UNCHANGED shotFrame

\* The service answers followed when searchVisaInfo runs next to the other
\* orchestrators.
TaskConsultantResponses ==
  {[text |-> "empty", data |-> EmptyData, chunks |-> << >>],
   [text |-> "json",
    data |-> [visaStatus |-> "visa_free", summary |-> "sumA", timeline |-> "tlA",
              whatsNext |-> Arr(<< "step1" >>), requirements |-> Arr(<< "req1" >>),
              hasSources |-> TRUE, sources |-> << [title |-> "t1", uri |-> "u1"] >>],
    chunks |-> << >>]}

TaskEvaluatorResponses ==
  {[text |-> "json",
    obj |-> [score |-> Num(n), pass |-> "true", reasoning |-> Str(<< "critA" >>)]] :
      n \in {3, 9}}

SearchInFlight == pc \in {"awaitRun", "awaitEval"}

(***************************************************************************)
(* Specification of the orchestrators called one after the other, in any  *)
(* order and any number of times.                                          *)
(***************************************************************************)
NextTasks ==
  \/ \E fn \in OneShots : ~SearchInFlight /\ ShotCall(fn)
  \/ \E text \in ShotTexts : ShotResolves(text)
  \/ \E e \in {"NetworkError"} : ShotRejects(e)
  \/ \E cb \in {FALSE} : shot.pc # "await" /\ Call(cb)
  \/ \E e \in {"NetworkError"} : RunFails(e)
  \/ \E resp \in TaskConsultantResponses : RunReturns(resp)
  \/ \E e \in {"NetworkError"} : EvalFails(e)
  \/ \E resp \in TaskEvaluatorResponses : EvalReturns(resp)

SpecTasks == Init /\ [][NextTasks]_vars

(***************************************************************************)
(* Specification of one searchVisaInfo and one getTravelAdvisory started  *)
(* together (the Promise.all of handlePurposeSubmit): their steps          *)
(* interleave in every order.                                              *)
(***************************************************************************)
NextConcurrent ==
  \/ \E cb \in BOOLEAN : pc = "idle" /\ Call(cb)
  \/ \E e \in {"NetworkError"} : RunFails(e)
  \/ \E resp \in TaskConsultantResponses : RunReturns(resp)
  \/ \E e \in {"NetworkError"} : EvalFails(e)
  \/ \E resp \in TaskEvaluatorResponses : EvalReturns(resp)
  \/ shot.pc = "idle" /\ ShotCall("getTravelAdvisory")
  \/ \E text \in ShotTexts : ShotResolves(text)
  \/ \E e \in {"NetworkError"} : ShotRejects(e)

SpecConcurrent == Init /\ [][NextConcurrent]_vars

(***************************************************************************)
(* Specification of the VisaSearch component: the user's actions as the    *)
(* rendered controls permit them, the service invocations the handlers     *)
(* start, and the handlers' continuations.  An invocation is followed from *)
(* its call (reset and first send) to the settling of its promise.         *)
(***************************************************************************)
\* Service invocations started in one session of the component.
MaxInvocations == 5

Invocation(fn, h) ==
  [fn |-> fn, st |-> "running", h |-> h,
   \* the handler that started it still awaits its promise
   waited |-> TRUE,
   \* a searchVisaInfo invocation was running when this one reset and sent
   \* on the consultant's session
   overlap |-> /\ PersonaOf(fn) = "consultant"
               /\ \E i \in 1..Len(invs) :
                    invs[i].fn = "searchVisaInfo" /\ invs[i].st = "running"]

uiFrame ==
  << variant, pc, onProgress, attempts, currentData, currentSources,
     verification, chat, chatTurns, progress, requests, evalCalls, log, last,
     outcome, evalText, failure, allParseable, runText, recIn, recOut,
     sessions, shot, lastSend, resetMark, pair, app, doc >>

\* The "Continue" button (submit of the location form): disabled while
\* isLoading.
HandleLocationSubmit ==
  /\ ui.mounted /\ ui.step = "LOCATION" /\ ~ui.isLoading
  /\ Len(invs) < MaxInvocations
  /\ ui' = [ui EXCEPT !.isLoading = TRUE, !.error = FALSE]
  /\ invs' = Append(invs, Invocation("getCommonVisaPurposes", Len(invs) + 1))
  /\ UNCHANGED uiFrame

\* A click on one of the purposes.
SelectPurpose ==
  /\ ui.mounted /\ ui.step = "PURPOSE" /\ ~ui.selected
  /\ ui' = [ui EXCEPT !.selected = TRUE]
  /\ UNCHANGED invs
  /\ UNCHANGED uiFrame

\* The "Back" button: never disabled.
Back ==
  /\ ui.mounted /\ ui.step = "PURPOSE"
  /\ ui' = [ui EXCEPT !.step = "LOCATION"]
  /\ UNCHANGED invs
  /\ UNCHANGED uiFrame

\* The "Find Requirements" button: disabled while isLoading or without a
\* selected purpose.
HandlePurposeSubmit ==
  /\ ui.mounted /\ ui.step = "PURPOSE" /\ ~ui.isLoading /\ ui.selected
  /\ Len(invs) + 2 <= MaxInvocations
  /\ ui' = [ui EXCEPT !.isLoading = TRUE, !.error = FALSE]
  /\ invs' = Append(Append(invs, Invocation("searchVisaInfo", Len(invs) + 1)),
                    Invocation("getTravelAdvisory", Len(invs) + 1))
  /\ UNCHANGED uiFrame

\* Mutation of SameHandler: each promise awaited on its own.
SameHandlerAlone(i) == {i}

\* The invocations the handler of invocation i awaits together with it.
SameHandler(i) == {j \in 1..Len(invs) : invs[j].h = invs[i].h}

StopWaiting(list, i) ==
  [j \in 1..Len(list) |->
     IF j \in SameHandler(i) THEN [list[j] EXCEPT !.waited = FALSE] ELSE list[j]]

\* getCommonVisaPurposes settles: try / catch / finally of
\* handleLocationSubmit.  keep: the selected id is among the new purposes.
PurposesSettle(i, ok, keep) ==
  /\ i \in 1..Len(invs)
  /\ invs[i].fn = "getCommonVisaPurposes" /\ invs[i].st = "running"
  /\ invs' = StopWaiting([invs EXCEPT ![i].st = IF ok THEN "resolved" ELSE "rejected"], i)
  /\ ui' = IF ~ui.mounted THEN ui
           ELSE IF ok
           THEN [ui EXCEPT !.step = "PURPOSE", !.isLoading = FALSE,
                           !.selected = ui.selected /\ keep]
           ELSE [ui EXCEPT !.error = TRUE, !.isLoading = FALSE]
  /\ UNCHANGED uiFrame

\* searchVisaInfo or getTravelAdvisory settles.  Promise.all rejects with
\* the first rejection and resolves once both have resolved; then the try /
\* catch / finally of handlePurposeSubmit runs, once.
SearchOrAdvisorySettle(i, ok) ==
  /\ i \in 1..Len(invs)
  /\ invs[i].fn \in {"searchVisaInfo", "getTravelAdvisory"}
  /\ invs[i].st = "running"
  /\ LET settled == [invs EXCEPT ![i].st = IF ok THEN "resolved" ELSE "rejected"]
         allResolved == \A j \in SameHandler(i) : settled[j].st = "resolved"
     IN IF ~invs[i].waited \/ (ok /\ ~allResolved)
        THEN /\ invs' = settled
             /\ UNCHANGED ui
        ELSE /\ invs' = StopWaiting(settled, i)
             /\ ui' = IF ~ui.mounted THEN ui
                      ELSE IF ok
                      THEN [ui EXCEPT !.isLoading = FALSE, !.mounted = FALSE]
                      ELSE [ui EXCEPT !.error = TRUE, !.isLoading = FALSE]
  /\ UNCHANGED uiFrame

\* "Search Different Destination": the policy is dropped and VisaSearch is
\* mounted anew.
SearchDifferentDestination ==
  /\ ~ui.mounted
  /\ ui' = NoUi
  /\ UNCHANGED invs
  /\ UNCHANGED uiFrame

NextVisaSearch ==
  \/ HandleLocationSubmit
  \/ SelectPurpose
  \/ Back
  \/ HandlePurposeSubmit
  \/ \E i \in 1..MaxInvocations, ok \in BOOLEAN, keep \in BOOLEAN : PurposesSettle(i, ok, keep)
  \/ \E i \in 1..MaxInvocations, ok \in BOOLEAN : SearchOrAdvisorySettle(i, ok)
  \/ SearchDifferentDestination

SpecVisaSearch == Init /\ [][NextVisaSearch]_vars

(***************************************************************************)
(* Specification of two searchVisaInfo invocations fed the same service    *)
(* responses: pair[1] is called without a progress callback, pair[2] with  *)
(* one.  A callback returns, throws on every call, or throws when it is    *)
(* given the verification stage.                                           *)
(***************************************************************************)
Callbacks == {"returns", "throws", "throwsOnVerify"}

\* The local state of one invocation.
Run(cb, at, n, data, sources, ver, reqs, evals, trail, out) ==
  [cb |-> cb, pc |-> at, attempts |-> n, currentData |-> data,
   currentSources |-> sources, verification |-> ver, requests |-> reqs,
   evalCalls |-> evals, progress |-> trail, outcome |-> out]

\* if (onProgress) onProgress(stage): whether the statement throws.
NotifyThrows(cb, stage) ==
  cb = "throws" \/ (cb = "throwsOnVerify" /\ stage = StageVerify)

\* catch (error) { throw error; } as the end of an invocation.
RunRaised(r, e) == [r EXCEPT !.pc = "raised", !.outcome = Raised(e)]

\* The loop head of attempt n: prompt, notification, send.
RunSend(r, n, ver) ==
  IF NotifyThrows(r.cb, StageFor(n))
  THEN RunRaised([r EXCEPT !.attempts = n, !.verification = ver], "CallbackError")
  ELSE [r EXCEPT !.pc = "awaitRun", !.attempts = n, !.verification = ver,
                 !.progress = Notify(r.cb # "none", r.progress, StageFor(n)),
                 !.requests = Append(r.requests, PromptFor(n, ver))]

\* The call up to the first await.
RunCall(cb) ==
  RunSend(Run(cb, "idle", 0, EmptyData, << >>, InitialVerification,
              << >>, 0, << >>, NoOutcome),
          0, InitialVerification)

\* The consultant answers: parse, reconcile, notify, call the evaluator.
RunAfterAnswer(v, r, resp) ==
  IF resp.text = "invalid" THEN RunRaised(r, "SyntaxError")
  ELSE LET data == IF resp.text = "json" THEN resp.data ELSE EmptyData
           got == [r EXCEPT !.currentData = data,
                            !.currentSources = Reconcile(v, data, resp.chunks)]
       IN IF NotifyThrows(r.cb, StageVerify) THEN RunRaised(got, "CallbackError")
          ELSE LET told == [got EXCEPT !.progress =
                                  Notify(r.cb # "none", r.progress, StageVerify)]
               IN IF CanBuildEvalCall(v, resp.text)
                  THEN [told EXCEPT !.pc = "awaitEval", !.evalCalls = @ + 1]
                  ELSE RunRaised(told, "TypeError")

\* The return statement.
RunReturn(r, n, ver) ==
  [r EXCEPT !.pc = "returned", !.attempts = n, !.verification = ver,
            !.outcome = Returned(PolicyRecord(r.currentData, r.currentSources, ver))]

\* The evaluator answers: parse, guardrail, break, or the next iteration.
RunAfterEvaluation(v, r, resp) ==
  IF resp.text = "invalid" THEN RunRaised(r, "SyntaxError")
  ELSE LET ver == Guardrail(v, ParseEval(v, resp), r.currentSources)
       IN IF Accepts(ver) THEN RunReturn(r, r.attempts, ver)
          ELSE IF LoopContinues(r.attempts + 1) THEN RunSend(r, r.attempts + 1, ver)
          ELSE RunReturn(r, r.attempts + 1, ver)

RunOver(r) == r.pc \in {"returned", "raised"}

InitPair ==
  /\ variant \in {"services", "unnamed"}
  /\ pc = "idle"
  /\ onProgress = FALSE
  /\ attempts = 0
  /\ currentData = EmptyData
  /\ currentSources = << >>
  /\ verification = InitialVerification
  /\ chat = "null"
  /\ chatTurns = << >>
  /\ progress = << >>
  /\ requests = << >>
  /\ evalCalls = 0
  /\ log = << >>
  /\ last = NoAttempt
  /\ outcome = NoOutcome
  /\ evalText = "none"
  /\ failure = NoFailure
  /\ allParseable = TRUE
  /\ runText = "none"
  /\ recIn = << << >>, << >> >>
  /\ recOut = << >>
  /\ sessions = NoSessions
  /\ shot = NoShot
  /\ lastSend = NoSend
  /\ resetMark = 0
  /\ ui = NoUi
  /\ invs = << >>
  /\ \E cb \in Callbacks : pair = << RunCall("none"), RunCall(cb) >>
  /\ app = NoApp
  /\ doc = NoDoc

pairFrame ==
  << variant, pc, onProgress, attempts, currentData, currentSources,
     verification, chat, chatTurns, progress, requests, evalCalls, log, last,
     outcome, evalText, failure, allParseable, runText, recIn, recOut,
     sessions, shot, lastSend, resetMark, ui, invs, app, doc >>

\* Both invocations get the same consultant response for the request they
\* wait on.
PairRunReturns(resp) ==
  /\ \E i \in 1..2 : pair[i].pc = "awaitRun"
  /\ pair' = [i \in 1..2 |->
               IF pair[i].pc = "awaitRun"
               THEN RunAfterAnswer(variant, pair[i], resp) ELSE pair[i]]
  /\ UNCHANGED pairFrame

\* The same request is rejected for both.
PairRunFails(e) ==
  /\ \E i \in 1..2 : pair[i].pc = "awaitRun"
  /\ pair' = [i \in 1..2 |->
               IF pair[i].pc = "awaitRun" THEN RunRaised(pair[i], e) ELSE pair[i]]
  /\ UNCHANGED pairFrame

\* Both get the same evaluator response.
PairEvalReturns(resp) ==
  /\ \E i \in 1..2 : pair[i].pc = "awaitEval"
  /\ pair' = [i \in 1..2 |->
               IF pair[i].pc = "awaitEval"
               THEN RunAfterEvaluation(variant, pair[i], resp) ELSE pair[i]]
  /\ UNCHANGED pairFrame

\* The same evaluator call is rejected for both.
PairEvalFails(e) ==
  /\ \E i \in 1..2 : pair[i].pc = "awaitEval"
  /\ pair' = [i \in 1..2 |->
               IF pair[i].pc = "awaitEval" THEN RunRaised(pair[i], e) ELSE pair[i]]
  /\ UNCHANGED pairFrame

PairConsultantResponses ==
  TaskConsultantResponses
    \cup {[text |-> t, data |-> EmptyData, chunks |-> << >>] : t \in {"absent", "invalid"}}

PairEvaluatorResponses ==
  TaskEvaluatorResponses
    \cup {[text |-> t, obj |-> EmptyEval] : t \in {"empty", "invalid"}}
    \cup {[text |-> "json", obj |-> EmptyEval]}

NextPair ==
  \/ \E resp \in PairConsultantResponses : PairRunReturns(resp)
  \/ \E e \in Errors : PairRunFails(e)
  \/ \E resp \in PairEvaluatorResponses : PairEvalReturns(resp)
  \/ \E e \in Errors : PairEvalFails(e)

SpecPair == InitPair /\ [][NextPair]_vars

(***************************************************************************)
(* Specification of the return statement on its own: the record built     *)
(* from every consultant object of RecordData, a source list and a        *)
(* verification.                                                           *)
(***************************************************************************)
\* The values the schema lists for visaStatus, also the VisaPolicy type.
VisaStatuses == {"visa_required", "visa_free", "e_visa", "on_arrival", "unknown"}

\* What a parsed consultant object can hold as visaStatus: the property
\* missing, the empty string, a listed value, any other string.
StatusInputs == VisaStatuses \cup {Absent, "", "visa_exempt"}

RecordData ==
  [visaStatus : StatusInputs, summary : {Absent, "sumA"},
   timeline : {Absent, "tlA"}, whatsNext : {UndefArr, Arr(<< "step1" >>)},
   requirements : {UndefArr, Arr(<< "req1" >>)}, hasSources : {FALSE},
   sources : {<< >>}]

RecordSources == {<< >>, << [title |-> "t1", uri |-> "u1"] >>}

RecordVerifications ==
  {InitialVerification, EmptyEval,
   [score |-> Num(9), pass |-> "true", reasoning |-> Str(<< "critA" >>)]}

InitRecord ==
  /\ variant \in {"services", "unnamed"}
  /\ pc = "loopDone"
  /\ onProgress = FALSE
  /\ attempts = 0
  /\ currentData \in RecordData
  /\ currentSources \in RecordSources
  /\ verification \in RecordVerifications
  /\ chat = "null"
  /\ chatTurns = << >>
  /\ progress = << >>
  /\ requests = << >>
  /\ evalCalls = 0
  /\ log = << >>
  /\ last = NoAttempt
  /\ outcome = NoOutcome
  /\ evalText = "none"
  /\ failure = NoFailure
  /\ allParseable = TRUE
  /\ runText = "none"
  /\ recIn = << << >>, << >> >>
  /\ recOut = << >>
  /\ AuxInit

\* The return statement after the loop.
BuildRecord ==
  /\ pc = "loopDone"
  /\ ReturnRecord(currentData, currentSources, verification)
  /\ UNCHANGED << variant, onProgress, attempts, currentData, currentSources,
                  verification, chat, chatTurns, progress, requests, evalCalls,
                  log, last, evalText, failure, allParseable, runText,
                  recIn, recOut, auxVars >>

NextRecord == BuildRecord

SpecRecord == InitRecord /\ [][NextRecord]_vars

(***************************************************************************)
(* Specification of the result handling of generateDocumentChecklist on    *)
(* its own: the function applied to every generation response of           *)
(* ChecklistResponses.                                                     *)
(***************************************************************************)
\* The search loop at rest.
LoopAtRest ==
  /\ onProgress = FALSE
  /\ attempts = 0
  /\ currentData = EmptyData
  /\ currentSources = << >>
  /\ verification = InitialVerification
  /\ chat = "null"
  /\ chatTurns = << >>
  /\ progress = << >>
  /\ requests = << >>
  /\ evalCalls = 0
  /\ log = << >>
  /\ last = NoAttempt
  /\ evalText = "none"
  /\ failure = NoFailure
  /\ allParseable = TRUE
  /\ runText = "none"

\* Longest item list of a generation response.
MaxItems == 2

\* An item as the generation call gives it: the schema asks for id, name,
\* description and isRequired and marks none as required; the object can
\* hold a completed property of its own.
ChecklistItems ==
  [id : {"d1", "d2"}, isRequired : {Absent, "true"},
   completed : {Absent, "true", "false"}]

\* A generation response: its text by kind ("array": a JSON array,
\* "object": JSON that is not an array) and the items an array holds.
ChecklistResponses ==
  {[text |-> t, items |-> << >>] : t \in {"absent", "empty", "invalid", "object"}}
  \cup [text : {"array"}, items : SeqsUpTo(ChecklistItems, MaxItems)]

\* Mutation of CompleteItem: the spread placed after the literal property,
\* ({ completed: false, ...item }).
CompleteItemKeepsOwn(item) ==
  IF item.completed = Absent THEN [item EXCEPT !.completed = "false"] ELSE item

\* ({ ...item, completed: false })
CompleteItem(item) == [item EXCEPT !.completed = "false"]

\* const items = JSON.parse(text || "[]"); return items.map(...)
ChecklistResult(resp) ==
  IF resp.text = "invalid" THEN Raised("SyntaxError")
  ELSE IF resp.text = "object" THEN Raised("TypeError")
  ELSE Returned([i \in 1..Len(resp.items) |-> CompleteItem(resp.items[i])])

InitChecklist ==
  /\ variant \in {"services", "unnamed"}
  /\ pc = "checklist"
  /\ LoopAtRest
  /\ outcome = NoOutcome
  /\ recIn \in ChecklistResponses
  /\ recOut = << >>
  /\ AuxInit

pureFrame ==
  << variant, onProgress, attempts, currentData, currentSources, verification,
     chat, chatTurns, progress, requests, evalCalls, log, last, evalText,
     failure, allParseable, runText, recIn, recOut, auxVars >>

\* run has resolved with the response recIn.
ChecklistReturns ==
  /\ pc = "checklist"
  /\ outcome' = ChecklistResult(recIn)
  /\ pc' = "checklisted"
  /\ UNCHANGED pureFrame

NextChecklist == ChecklistReturns

SpecChecklist == InitChecklist /\ [][NextChecklist]_vars

(***************************************************************************)
(* Specification of the App component with the PolicyResults and Checklist *)
(* components it renders: the user's actions as the rendered controls      *)
(* permit them, and the continuations of the handlers that await a service *)
(* call.  VisaSearch is followed as far as its searches: a search is       *)
(* started, and later hands a policy to onPolicyFound or fails.            *)
(***************************************************************************)
\* Policies found in one session of the App.
MaxPolicies == 3
\* handleStartApplication calls in one session of the App.
MaxGenerations == 2
\* handlePurposeSubmit calls awaiting at the same time.
MaxPending == 2

\* The Verification scores of the policies VisaSearch delivers.
PolicyScores == {UndefNum, NaN, Num(2), Num(3), Num(8)}

\* The generation responses of handleStartApplication's call.
AppChecklistResponses ==
  {[text |-> "invalid", items |-> << >>]}
  \cup [text : {"array"},
        items : SeqsUpTo([id : {"d1", "d2"}, isRequired : {"true"},
                          completed : {Absent}], MaxItems)]

\* renderContent: which component the App shows.
VisaSearchMounted(a) == a.activeSection = "SEARCH" /\ a.currentPolicy = NoPolicy
PolicyResultsMounted(a) == a.activeSection = "SEARCH" /\ a.currentPolicy # NoPolicy
ChecklistMounted(a) == a.activeSection = "CHECKLIST" /\ a.currentPolicy # NoPolicy

\* policy.verification?.score || 0
evalScore(a) ==
  IF a.currentPolicy.score.k = "number" THEN a.currentPolicy.score.v ELSE 0

\* Mutation of isCriticalFailure: no score is low enough to block.
isCriticalFailureNever(a) == evalScore(a) < 0

isCriticalFailure(a) == evalScore(a) < 3
isHighConfidence(a) == evalScore(a) >= 8
showContent(a) == isHighConfidence(a) \/ a.showPreliminaryDetails

\* The timeline, the steps and the checklist button are on screen.
DetailsShown(a) ==
  PolicyResultsMounted(a) /\ ~isCriticalFailure(a) /\ showContent(a)

Unwait(list) == [k \in 1..Len(list) |-> [list[k] EXCEPT !.live = FALSE]]

\* The render that follows a state change o -> n of the App: a component
\* that is no longer rendered is unmounted, its state is lost and the
\* setters its pending handlers still call have no effect.
Rerender(o, n) ==
  LET n1 == IF VisaSearchMounted(o) /\ ~VisaSearchMounted(n)
            THEN [n EXCEPT !.isLoading = FALSE, !.searches = Unwait(n.searches)]
            ELSE n
  IN IF PolicyResultsMounted(o) /\ ~PolicyResultsMounted(n)
     THEN [n1 EXCEPT !.isGenerating = FALSE, !.showPreliminaryDetails = FALSE,
                     !.gens = Unwait(n1.gens)]
     ELSE n1

appFrame ==
  << variant, pc, onProgress, attempts, currentData, currentSources,
     verification, chat, chatTurns, progress, requests, evalCalls, log, last,
     outcome, evalText, failure, allParseable, runText, recIn, recOut,
     sessions, shot, lastSend, resetMark, ui, invs, pair, doc >>

\* VisaSearch: "Find Requirements", disabled while isLoading.
StartSearch ==
  /\ VisaSearchMounted(app) /\ ~app.isLoading
  /\ Len(app.searches) < MaxPending
  /\ app' = [app EXCEPT !.isLoading = TRUE,
                         !.searches = Append(app.searches, [live |-> TRUE])]
  /\ UNCHANGED appFrame

Without(list, k) == [j \in 1..(Len(list) - 1) |-> IF j < k THEN list[j] ELSE list[j + 1]]

\* setCurrentPolicy(policy); setChecklistItems([])
handlePolicyFound(a, policy) ==
  [a EXCEPT !.currentPolicy = policy, !.checklistItems = << >>,
            !.itemsOf = 0, !.clicked = 0]

\* A search settles.  ok: handlePurposeSubmit calls onPolicyFound with a
\* policy that carries the score; otherwise it sets its error.  finally:
\* setIsLoading(false).
SearchSettles(k, ok, score) ==
  /\ k \in 1..Len(app.searches)
  /\ ok => app.found < MaxPolicies
  /\ LET rest == [app EXCEPT !.searches = Without(app.searches, k),
                             !.isLoading = IF app.searches[k].live THEN FALSE
                                           ELSE app.isLoading]
     IN app' = IF ok
               THEN Rerender(app,
                      [handlePolicyFound(rest, [id |-> app.found + 1, score |-> score])
                         EXCEPT !.found = app.found + 1])
               ELSE rest
  /\ UNCHANGED appFrame

\* PolicyResults: "View Preliminary Results" in the banner, "I understand,
\* show me anyway" in the placeholder.
ViewPreliminary ==
  /\ PolicyResultsMounted(app)
  /\ ~isCriticalFailure(app) /\ ~isHighConfidence(app)
  /\ ~app.showPreliminaryDetails
  /\ app' = [app EXCEPT !.showPreliminaryDetails = TRUE]
  /\ UNCHANGED appFrame

\* PolicyResults: the checklist button (handleStartApplication up to its
\* await), disabled while isGenerating.
StartApplication ==
  /\ DetailsShown(app) /\ ~app.isGenerating
  /\ Len(app.gens) < MaxGenerations
  /\ app' = [app EXCEPT !.isGenerating = TRUE,
                         !.gens = Append(app.gens,
                                    [policy |-> app.currentPolicy.id,
                                     st |-> "running", live |-> TRUE])]
  /\ UNCHANGED appFrame

\* setChecklistItems(items); setActiveSection(AppSection.CHECKLIST)
handleGenerateChecklist(a, items, policy) ==
  [a EXCEPT !.checklistItems = items, !.itemsOf = policy, !.clicked = 0,
            !.activeSection = "CHECKLIST"]

\* generateDocumentChecklist settles: try / catch / finally of
\* handleStartApplication.
GenerationSettles(k, resp) ==
  /\ k \in 1..Len(app.gens)
  /\ app.gens[k].st = "running"
  /\ LET rest == [app EXCEPT !.gens[k].st = "settled",
                             !.isGenerating = IF app.gens[k].live THEN FALSE
                                              ELSE app.isGenerating]
         res == ChecklistResult(resp)
     IN app' = IF res.kind = "record"
               THEN Rerender(app,
                      handleGenerateChecklist(rest, res.record, app.gens[k].policy))
               ELSE rest
  /\ UNCHANGED appFrame

\* A NavItem: "My Checklist" and "Doc Builder" are rendered with a policy
\* only, "My Checklist" is disabled without items.
Navigate(section) ==
  /\ section # app.activeSection
  /\ section # "SEARCH" => app.currentPolicy # NoPolicy
  /\ section = "CHECKLIST" => Len(app.checklistItems) > 0
  /\ app' = Rerender(app, [app EXCEPT !.activeSection = section])
  /\ UNCHANGED appFrame

\* "Search Different Destination": setCurrentPolicy(null);
\* setChecklistItems([]).
DropPolicy ==
  /\ PolicyResultsMounted(app)
  /\ app' = Rerender(app, [app EXCEPT !.currentPolicy = NoPolicy,
                                      !.checklistItems = << >>,
                                      !.itemsOf = 0, !.clicked = 0])
  /\ UNCHANGED appFrame

\* !item.completed
Not(b) == IF b = "true" THEN "false" ELSE "true"

\* prev.map(item => item.id === id ? { ...item, completed: !item.completed } : item)
toggleChecklistItem(items, id) ==
  [j \in 1..Len(items) |->
     IF items[j].id = id THEN [items[j] EXCEPT !.completed = Not(items[j].completed)]
     ELSE items[j]]

\* Checklist: a click on the item at position k, onToggle(item.id).
ToggleClick(k) ==
  /\ ChecklistMounted(app)
  /\ k \in 1..Len(app.checklistItems)
  /\ app' = [app EXCEPT
               !.checklistItems = toggleChecklistItem(app.checklistItems,
                                                      app.checklistItems[k].id),
               !.clicked = k]
  /\ UNCHANGED appFrame

NextApp ==
  \/ StartSearch
  \/ \E k \in 1..MaxPending, ok \in BOOLEAN, score \in PolicyScores :
       SearchSettles(k, ok, score)
  \/ ViewPreliminary
  \/ StartApplication
  \/ \E k \in 1..MaxGenerations, resp \in AppChecklistResponses :
       GenerationSettles(k, resp)
  \/ \E section \in {"SEARCH", "CHECKLIST", "DOC_BUILDER"} : Navigate(section)
  \/ DropPolicy
  \/ \E k \in 1..MaxItems : ToggleClick(k)

SpecApp == Init /\ [][NextApp]_vars

(***************************************************************************)
(* Specification of parsePassportImage from the response on: the function  *)
(* applied to every generation response of PassportResponses.              *)
(***************************************************************************)
Null == "null"

\* !x for a property that is a string, null or missing.
Falsy(x) == x \in {Absent, Null, ""}

\* The parsed object: each property missing, null, "" or a text; extra is a
\* property the schema does not name.
PassportObjects ==
  [fullName : {Absent, Null, "", "name"},
   passportNumber : {Absent, Null, "", "number"},
   citizenship : {Null, "country"}, dateOfBirth : {Null, "date"},
   passportExpiry : {Null, "date"}, extra : {Absent, "x"}]

\* JSON.parse("{}")
EmptyPassport ==
  [fullName |-> Absent, passportNumber |-> Absent, citizenship |-> Absent,
   dateOfBirth |-> Absent, passportExpiry |-> Absent, extra |-> Absent]

\* A generation response: its text by kind ("fenced": a JSON object inside
\* a ```json block, "null": the JSON text null) and the object it encodes.
PassportResponses ==
  {[text |-> t, obj |-> EmptyPassport] : t \in {"absent", "empty", "invalid", "null"}}
  \cup [text : {"json", "fenced"}, obj : PassportObjects]

\* The message of the error thrown when nothing was extracted.
CouldNotExtract(v) ==
  IF v = "services"
  THEN "Could not extract passport details. The image might be too blurry or obscure."
  ELSE "Could not extract details."

\* Mutation of NothingExtracted: one missing property is enough.
NothingExtractedEither(obj) == Falsy(obj.passportNumber) \/ Falsy(obj.fullName)

\* !result.passportNumber && !result.fullName
NothingExtracted(obj) == Falsy(obj.passportNumber) /\ Falsy(obj.fullName)

\* From `let cleanedText = response.text || "{}"` to the return statement.
\* src/services/gemini.ts returns the five named properties,
\* src/unnamed/part_000 the parsed object itself.
PassportResult(v, resp) ==
  IF resp.text = "invalid" THEN Raised("SyntaxError")
  ELSE IF resp.text = "null" THEN Raised("TypeError")
  ELSE LET result == IF resp.text \in {"absent", "empty"} THEN EmptyPassport
                     ELSE resp.obj
       IN IF NothingExtracted(result) THEN Raised(CouldNotExtract(v))
          ELSE IF v = "services" THEN Returned([result EXCEPT !.extra = Absent])
          ELSE Returned(result)

InitPassport ==
  /\ variant \in {"services", "unnamed"}
  /\ pc = "passport"
  /\ LoopAtRest
  /\ outcome = NoOutcome
  /\ recIn \in PassportResponses
  /\ recOut = << >>
  /\ AuxInit

\* generateContent has resolved with the response recIn.
PassportReturns ==
  /\ pc = "passport"
  /\ outcome' = PassportResult(variant, recIn)
  /\ pc' = "parsed"
  /\ UNCHANGED pureFrame

NextPassport == PassportReturns

SpecPassport == InitPassport /\ [][NextPassport]_vars

(***************************************************************************)
(* Specification of the passport scanner of DocBuilder: the files the user *)
(* chooses, the FileReader's load event, and the settling of the           *)
(* parsePassportImage call made in the load handler.                       *)
(***************************************************************************)
\* Files chosen in one session of the component.
MaxScans == 3

DocPassportResponses ==
  {[text |-> "invalid", obj |-> EmptyPassport]}
  \cup [text : {"json"},
        obj : [fullName : {Null, "name"}, passportNumber : {Null, "number"},
               citizenship : {"country"}, dateOfBirth : {Null},
               passportExpiry : {Null}, extra : {Absent}]]

docFrame ==
  << variant, pc, onProgress, attempts, currentData, currentSources,
     verification, chat, chatTurns, progress, requests, evalCalls, log, last,
     outcome, evalText, failure, allParseable, runText, recIn, recOut,
     sessions, shot, lastSend, resetMark, ui, invs, pair, app >>

\* (x || prev)
OrPrev(x, prev) == IF Falsy(x) THEN prev ELSE x

\* setFormData(prev => ({ ...prev, name: extractedData.fullName || prev.name, ... }))
FillForm(form, extracted) ==
  [name |-> OrPrev(extracted.fullName, form.name),
   passportNumber |-> OrPrev(extracted.passportNumber, form.passportNumber)]

\* handleFileChange, from the choice of a file to its end: the function has
\* no await, so setIsScanning(true), the body of try and the
\* setIsScanning(false) of finally run in one go.  The body registers the
\* load handler and starts the read; throws: it raises, and catch alerts.
HandleFileChange(throws) ==
  /\ ~doc.isScanning
  /\ Len(doc.scans) < MaxScans
  /\ doc' = [doc EXCEPT
               !.isScanning = FALSE,
               !.scans = Append(doc.scans,
                           IF throws THEN [st |-> "failed", alerted |-> TRUE]
                           ELSE [st |-> "reading", alerted |-> FALSE])]
  /\ UNCHANGED docFrame

\* reader.onloadend up to its await: parsePassportImage is called.
ReaderLoadEnd(i) ==
  /\ i \in 1..Len(doc.scans)
  /\ doc.scans[i].st = "reading"
  /\ doc' = [doc EXCEPT !.scans[i].st = "parsing"]
  /\ UNCHANGED docFrame

\* parsePassportImage settles with res inside the load handler: the form is
\* filled, or the handler's promise rejects with nothing awaiting it.
ScanSettles(i, res) ==
  /\ i \in 1..Len(doc.scans)
  /\ doc.scans[i].st = "parsing"
  /\ doc' = IF res.kind = "record"
            THEN [doc EXCEPT !.scans[i].st = "filled",
                             !.formData = FillForm(doc.formData, res.record)]
            ELSE [doc EXCEPT !.scans[i].st = "failed"]
  /\ UNCHANGED docFrame

NextDocBuilder ==
  \/ \E throws \in BOOLEAN : HandleFileChange(throws)
  \/ \E i \in 1..MaxScans : ReaderLoadEnd(i)
  \/ \E i \in 1..MaxScans, resp \in DocPassportResponses :
       ScanSettles(i, PassportResult(variant, resp))
  \/ \E i \in 1..MaxScans, e \in Errors : ScanSettles(i, Raised(e))

SpecDocBuilder == Init /\ [][NextDocBuilder]_vars

(***************************************************************************)
(* Properties                                                              *)
(***************************************************************************)
MissingNotices == {" Missing official source links.", " Missing official sources."}

HasNotice(r) == r.k = "string" /\ \E i \in 1..Len(r.s) : r.s[i] \in MissingNotices

AllEmpty == \A i \in 1..Len(log) : log[i].empty

\* C1: an invocation issues at most 3 consultant requests, at attempt
\* indices 0, 1 and 2, and at most 3 evaluator calls.
C1_AtMostThreeAttempts ==
  /\ Len(requests) <= 3
  /\ evalCalls <= 3
  /\ pc \in {"awaitRun", "awaitEval"} =>
       attempts \in 0..2 /\ Len(requests) = attempts + 1

C1_Witness == pc = "returned" /\ Len(requests) = 3 /\ evalCalls = 3

\* C2: an attempt whose score after the guardrail is >= 8 is the last one:
\* the invocation has returned with that attempt's data and verification and
\* has issued no request or evaluation beyond it.  An attempt 0 with a
\* source and a score of 9 means one request and one evaluation.
C2_AcceptStopsLoop ==
  /\ \A i \in 1..Len(log) :
       JsGe(log[i].score, 8) =>
         /\ i = Len(log)
         /\ pc = "returned"
         /\ Len(requests) = i
         /\ evalCalls = i
         /\ last.index = i - 1
         /\ last.ver.score = log[i].score
         /\ outcome = Returned(PolicyRecord(last.data, last.sources, last.ver))
  /\ (Len(log) >= 1 /\ ~log[1].empty /\ log[1].score = Num(9)) =>
       Len(requests) = 1 /\ evalCalls = 1

C2_Witness ==
  /\ pc = "returned"
  /\ Len(log) = 1 /\ ~log[1].empty /\ log[1].score = Num(9)
  /\ outcome.record.summary = "sumB"

\* C3: when all 3 attempts score below 8 the returned record holds the data
\* and the verification of attempt index 2, whatever the earlier scores.
C3_LastAttemptWins ==
  (pc = "returned" /\ Len(log) = 3 /\ \A i \in 1..3 : JsLt(log[i].score, 8)) =>
    /\ last.index = 2
    /\ outcome = Returned(PolicyRecord(last.data, last.sources, last.ver))
    /\ outcome.record.verification.score = log[3].score
    /\ outcome.record.verification.reasoning = log[3].reasoning

C3_Witness ==
  /\ pc = "returned" /\ Len(log) = 3
  /\ log[1].score = Num(7) /\ log[2].score = Num(5) /\ log[3].score = Num(3)
  /\ outcome.record.verification.score = Num(3)

\* C4: a returned record without sources has a score <= 5 and a reasoning
\* that holds the missing-sources notice.
C4_NoSourcesCapped ==
  (pc = "returned" /\ Len(outcome.record.sources) = 0) =>
    /\ JsLe(outcome.record.verification.score, 5)
    /\ HasNotice(outcome.record.verification.reasoning)

\* C5: when no attempt of a returned invocation had a source, there were
\* exactly 3 attempts, each with a score <= 5 after the guardrail, and the
\* record holds the summary and timeline of attempt index 2.
C5_ThreeEmptyAttempts ==
  (pc = "returned" /\ AllEmpty) =>
    /\ Len(log) = 3 /\ Len(requests) = 3 /\ evalCalls = 3
    /\ \A i \in 1..3 : JsLe(log[i].score, 5)
    /\ last.index = 2
    /\ outcome.record.summary = Or(last.data.summary, "Summary not available")
    /\ outcome.record.timeline = Or(last.data.timeline, "Check official sources")

\* C6: the reconciled source list holds each URI at most once.
C6_UniqueUris ==
  pc = "reconciled" =>
    \A i, j \in 1..Len(recOut) : recOut[i].uri = recOut[j].uri => i = j

C6_Witness ==
  /\ pc = "reconciled"
  /\ Len(recIn[1]) = 2 /\ Len(recIn[2]) = 2
  /\ recIn[1][1].uri = "u1" /\ recIn[1][2].uri = "u1"
  /\ recIn[2][1].web /\ recIn[2][1].uri = "u1"
  /\ recIn[2][2].web /\ recIn[2][2].uri = "u2"
  /\ Len(recOut) = 2

\* The first entry with URI u in the concatenation explicit-then-implicit.
FirstWith(all, u) ==
  all[CHOOSE i \in 1..Len(all) :
        all[i].uri = u /\ \A j \in 1..(i - 1) : all[j].uri # u]

\* C7: the citation kept for a URI has the title of the first occurrence of
\* that URI in explicit-then-implicit order, so the explicit title when the
\* URI is in both lists.
C7_FirstTitleKept ==
  pc = "reconciled" =>
    \A k \in 1..Len(recOut) :
      recOut[k].uri # Absent =>
        recOut[k].title =
          FirstWith(allSources(DataWith(recIn[1]), recIn[2]), recOut[k].uri).title

\* C8: an evaluator text that does not parse gives score 0, pass false and
\* an "Evaluation failed" reasoning, and raises nothing.
C8_EvaluatorFailSafe ==
  evalText \in {"empty", "invalid"} =>
    /\ pc # "raised"
    /\ last.ver.score = Num(0)
    /\ last.ver.pass = "false"
    /\ last.ver.reasoning.k = "string"
    /\ Len(last.ver.reasoning.s) >= 1
    /\ last.ver.reasoning.s[1] = "Evaluation failed"

\* C9: once a service call has rejected, the invocation has raised that same
\* error and has issued no service call since.
C9_ServiceFailureAborts ==
  failure # NoFailure =>
    /\ pc = "raised"
    /\ outcome = Raised(failure.error)
    /\ Len(requests) = failure.requests
    /\ evalCalls = failure.evals

C9_Witness ==
  /\ pc = "raised"
  /\ failure.error = "QuotaError"
  /\ failure.requests = 2
  /\ Len(log) = 1 /\ last.data.summary = "sumA" /\ Len(last.sources) = 1

\* C10: an invocation whose service calls all resolved with valid JSON has
\* not raised, and once over it has returned a record.
C10_QualityFailureReturns ==
  (allParseable /\ failure = NoFailure) =>
    /\ pc # "raised"
    /\ pc = "returned" => outcome.kind = "record"

C10_Witness ==
  /\ pc = "returned" /\ allParseable /\ failure = NoFailure
  /\ Len(log) = 3 /\ AllEmpty
  /\ \A i \in 1..3 : JsLt(log[i].score, 8)
  /\ outcome.kind = "record"

\* C11: a consultant text that is absent, empty or not valid JSON is taken
\* as the empty object: nothing is raised and the invocation goes on with
\* every field at its default.
C11_ParseFailureDefaulted ==
  runText \in {"absent", "empty", "invalid"} =>
    /\ pc # "raised"
    /\ currentData = EmptyData

\* C12: every returned record is fully defined: status, summary and timeline
\* are set, the three lists are sequences, and the verification has a numeric
\* score, a boolean pass and a string reasoning.
C12_RecordFullyDefined ==
  pc = "returned" =>
    LET r == outcome.record IN
    /\ r.visaStatus # Absent /\ r.summary # Absent /\ r.timeline # Absent
    /\ Len(r.whatsNext) >= 0 /\ Len(r.requirements) >= 0 /\ Len(r.sources) >= 0
    /\ r.verification.score.k = "number"
    /\ r.verification.pass \in {"true", "false"}
    /\ r.verification.reasoning.k = "string"

\* C14: the first request is the initial research prompt; every later
\* request is a retry prompt, never the initial one, and quotes the reasoning
\* of the attempt just before it.
C14_RetryQuotesPreviousCritique ==
  /\ Len(requests) >= 1 => requests[1] = InitialPrompt
  /\ \A k \in 2..Len(requests) :
       /\ requests[k].kind = "retry"
       /\ requests[k] # requests[1]
       /\ requests[k].critique = ToPieces(log[k - 1].reasoning)

C14_Witness ==
  /\ Len(requests) = 3 /\ Len(log) >= 2
  /\ log[1].reasoning.k = "string" /\ log[2].reasoning.k = "string"
  /\ log[1].reasoning # log[2].reasoning
  /\ requests[3].critique = log[2].reasoning.s

\* The label the k-th notification of an invocation carries.
ExpectedStage(k) ==
  IF k % 2 = 0 THEN << "Verifying Accuracy", 0 >>
  ELSE IF k = 1 THEN << "Consulting Official Sources", 1 >>
  ELSE << "Self-Correcting", (k + 1) \div 2 >>

\* C19 as stated: each of the transitions REQUEST, RECONCILE, EVALUATE and
\* ACCEPT-or-RETRY of every attempt, and the final DONE, is notified once.
C19_EveryTransitionNotified ==
  (onProgress /\ pc = "returned") => Len(progress) = 4 * Len(log) + 1

\* C19 amended: with a callback, an invocation notifies twice per attempt,
\* before the consultant request (a label naming the attempt) and before the
\* evaluator call; reconciliation, the accept-or-retry decision and the
\* return notify nothing.  Without a callback nothing is notified.
C19_TwoNotificationsPerAttempt ==
  /\ ~onProgress => progress = << >>
  /\ onProgress =>
       /\ \A k \in 1..Len(progress) : progress[k] = ExpectedStage(k)
       /\ pc = "awaitRun" => Len(progress) = 2 * Len(requests) - 1
       /\ pc = "awaitEval" => Len(progress) = 2 * Len(requests)
       /\ pc = "returned" => Len(progress) = 2 * Len(log)
       /\ pc = "raised" =>
            Len(progress) \in {2 * Len(requests) - 1, 2 * Len(requests)}

C19_Witness ==
  /\ onProgress /\ pc = "returned" /\ Len(log) = 3
  /\ Len(progress) = 6
  /\ progress[3] = << "Self-Correcting", 2 >>
  /\ progress[5] = << "Self-Correcting", 3 >>
  /\ progress[6] = << "Verifying Accuracy", 0 >>

\* C13: the visaStatus of a returned record is one of the five listed values,
\* whatever the consultant object held.
C13_StatusInClosedSet ==
  pc = "returned" => outcome.record.visaStatus \in VisaStatuses

\* C15: right after clearSession the session has no conversation handle and
\* no turns; a run that follows a reset starts from an empty context; and no
\* turn sent before the latest reset is in the conversation or in the context
\* of a send issued after it.
C15_ResetDropsContext ==
  /\ pc = "cleared" => chat = "null" /\ chatTurns = << >>
  /\ (pc = "awaitSend" /\ lastSend.reset) => lastSend.context = << >>
  /\ \A i \in 1..Len(chatTurns) : chatTurns[i] > resetMark
  /\ pc = "awaitSend" =>
       \A i \in 1..Len(lastSend.context) : lastSend.context[i] > resetMark

C15_Witness ==
  /\ pc = "awaitSend" /\ resetMark = 2 /\ Len(requests) = 4
  /\ lastSend.context = << 3 >>

\* C16: the conversation a task sends on holds no turn of an earlier task:
\* the single request of a one-request orchestrator goes out on an empty
\* conversation, and a request of searchVisaInfo on a conversation that
\* holds the earlier requests of the same invocation and nothing else.
C16_NoTurnOfEarlierTask ==
  /\ shot.pc = "await" => lastSend.context = << >>
  /\ pc = "awaitRun" => chatTurns = SubSeq(requests, 1, Len(requests) - 1)

\* What searchVisaInfo reads and writes, the consultant's session included.
searchState ==
  << pc, onProgress, attempts, currentData, currentSources, verification,
     chat, chatTurns, progress, requests, evalCalls, log, last, outcome >>

\* What getTravelAdvisory reads and writes, the guide's session included.
advisoryState == << shot, sessions, lastSend >>

\* C18: run concurrently, no step of the travel advisory changes the state
\* of the search or the consultant's session, and no step of the search
\* changes the state of the advisory or the guide's session; the advisory
\* sends on the guide's session only; and each ends with the session state
\* and the result a run on its own gives: the guide's conversation holds the
\* advisory's turn, the consultant's the requests of the search, and the
\* record is the one of the search's last attempt.
C18_ConcurrentRunsIndependent ==
  /\ [][ /\ advisoryState' # advisoryState => searchState' = searchState
         /\ searchState' # searchState => advisoryState' = advisoryState ]_vars
  /\ [](/\ lastSend.persona \in {"none", "guide"}
        /\ sessions["drafter"] = NoSessions["drafter"]
        /\ shot.pc = "returned" =>
             sessions["guide"] =
               [chat |-> "chat", turns |-> << ShotPrompt("getTravelAdvisory") >>]
        /\ pc = "returned" =>
             /\ chat = "chat" /\ chatTurns = requests
             /\ outcome = Returned(PolicyRecord(last.data, last.sources, last.ver)))

C18_Witness ==
  /\ pc = "awaitRun" /\ Len(requests) = 2
  /\ shot.pc = "await" /\ shot.fn = "getTravelAdvisory"
  /\ sessions["guide"].chat = "chat" /\ chat = "chat"

\* C17: under the actions the VisaSearch component permits, no invocation
\* resets or sends on the consultant's session while a searchVisaInfo
\* invocation is between its reset and the settling of its promise.
C17_OneConsultantInvocation ==
  \A i \in 1..Len(invs) : ~invs[i].overlap

\* C20: once both invocations are over, the one with a callback has issued
\* the same consultant requests and as many evaluator calls as the one
\* without, and has given its caller the same record or the same error.
C20_CallbackLeavesControlFlow ==
  (RunOver(pair[1]) /\ RunOver(pair[2])) =>
    /\ pair[2].requests = pair[1].requests
    /\ pair[2].evalCalls = pair[1].evalCalls
    /\ pair[2].outcome = pair[1].outcome

\* C21: every item generateDocumentChecklist returns has completed = false,
\* whatever completed property the generation response gave it; the items
\* are those of the response, in order, their other properties kept.
C21_ItemsStartIncomplete ==
  (pc = "checklisted" /\ outcome.kind = "record") =>
    /\ Len(outcome.record) = Len(recIn.items)
    /\ \A i \in 1..Len(outcome.record) :
         /\ outcome.record[i].completed = "false"
         /\ outcome.record[i].id = recIn.items[i].id
         /\ outcome.record[i].isRequired = recIn.items[i].isRequired

C21_Witness ==
  /\ pc = "checklisted" /\ outcome.kind = "record"
  /\ Len(recIn.items) = 2
  /\ recIn.items[1].completed = "true" /\ recIn.items[2].completed = Absent
  /\ outcome.record[1].completed = "false"

\* The object parsePassportImage parsed from the response recIn.
ParsedPassport ==
  IF recIn.text \in {"absent", "empty"} THEN EmptyPassport ELSE recIn.obj

\* C22: when the response parses to an object, parsePassportImage raises
\* its could-not-extract error exactly when fullName and passportNumber are
\* both missing, null or empty, and otherwise returns a record with the five
\* properties as parsed, whatever the other three are.
C22_FailsOnlyWithoutNameAndNumber ==
  (pc = "parsed" /\ recIn.text \in {"absent", "empty", "json", "fenced"}) =>
    IF /\ ParsedPassport.fullName \in {Absent, Null, ""}
       /\ ParsedPassport.passportNumber \in {Absent, Null, ""}
    THEN /\ outcome.kind = "error"
         /\ outcome.error \in {CouldNotExtract("services"), CouldNotExtract("unnamed")}
    ELSE /\ outcome.kind = "record"
         /\ outcome.record.fullName = ParsedPassport.fullName
         /\ outcome.record.passportNumber = ParsedPassport.passportNumber
         /\ outcome.record.citizenship = ParsedPassport.citizenship
         /\ outcome.record.dateOfBirth = ParsedPassport.dateOfBirth
         /\ outcome.record.passportExpiry = ParsedPassport.passportExpiry

C22_Witness ==
  /\ pc = "parsed" /\ recIn.text = "json"
  /\ recIn.obj.fullName = Null /\ recIn.obj.passportNumber = "number"
  /\ recIn.obj.citizenship = Null /\ recIn.obj.dateOfBirth = Null
  /\ recIn.obj.passportExpiry = Null
  /\ outcome.kind = "record" /\ outcome.record.passportNumber = "number"

\* C23: the evaluator call is issued once per evaluation and outside every
\* session: issuing it adds no request to a conversation, its answer leaves
\* the handle and the turns of the consultant's, the guide's and the
\* drafter's session as they were, and the conversation a retry is sent on
\* holds the consultant's own requests only.
C23_EvaluatorOutsideSessions ==
  /\ [][ /\ pc' = "awaitEval" => (evalCalls' = evalCalls + 1 /\ requests' = requests)
         /\ pc = "awaitEval" =>
              /\ chat' = chat /\ chatTurns' = chatTurns /\ sessions' = sessions
              /\ evalCalls' = evalCalls ]_vars
  /\ [](pc \in {"awaitRun", "awaitEval"} =>
          /\ Len(chatTurns) <= Len(requests)
          /\ \A i \in 1..Len(chatTurns) : chatTurns[i] = requests[i])

C23_Witness ==
  /\ pc = "awaitRun" /\ Len(requests) = 2 /\ evalCalls = 1
  /\ chatTurns = << InitialPrompt >>
  /\ Len(sessions["drafter"].turns) = 1 /\ Len(sessions["guide"].turns) = 1

\* C24: a call of run issues one send when it starts and none while it
\* waits; when the send is rejected, run has rejected with that same error,
\* no further send was issued, and the session still has its handle, its
\* turns and its last reset as before the call.
C24_RunSendsOnceAndPropagates ==
  /\ [][ /\ (pc # "awaitSend" /\ pc' = "awaitSend") =>
              Len(requests') = Len(requests) + 1
         /\ pc = "awaitSend" =>
              /\ requests' = requests
              /\ chat' = chat
              /\ resetMark' = resetMark ]_vars
  /\ [](pc = "failed" =>
          /\ outcome = Raised(failure.error)
          /\ Len(requests) = failure.requests
          /\ chat = "chat"
          /\ chatTurns = lastSend.context)

C24_Witness ==
  /\ pc = "failed" /\ failure.error = "QuotaError"
  /\ Len(requests) = 2 /\ chatTurns = << 1 >> /\ resetMark = 0

\* C25: every citation of the reconciled list has a URI.
C25_EveryCitationHasUri ==
  pc = "reconciled" => \A k \in 1..Len(recOut) : recOut[k].uri # Absent

\* The concatenation the reconciliation starts from: the explicit list, then
\* a citation for each grounding chunk with a web part.
ExplicitThenImplicit ==
  recIn[1] \o
    [i \in 1..Len(SelectSeq(recIn[2], LAMBDA c : c.web)) |->
       [title |-> SelectSeq(recIn[2], LAMBDA c : c.web)[i].title,
        uri |-> SelectSeq(recIn[2], LAMBDA c : c.web)[i].uri]]

\* The position of the first entry with URI u in ExplicitThenImplicit.
FirstAt(u) ==
  CHOOSE i \in 1..Len(ExplicitThenImplicit) :
    /\ ExplicitThenImplicit[i].uri = u
    /\ \A j \in 1..(i - 1) : ExplicitThenImplicit[j].uri # u

\* C26: the reconciled list holds the URIs of the concatenation
\* explicit-then-implicit, each one from it, in the order of their first
\* occurrence there; so a citation whose URI is in the explicit list comes
\* before every citation whose URI is in the grounding chunks only.
C26_FirstOccurrenceOrder ==
  pc = "reconciled" =>
    /\ \A k \in 1..Len(recOut) :
         \E i \in 1..Len(ExplicitThenImplicit) :
           ExplicitThenImplicit[i].uri = recOut[k].uri
    /\ \A i \in 1..Len(ExplicitThenImplicit) :
         ExplicitThenImplicit[i].uri # Absent =>
           \E k \in 1..Len(recOut) : recOut[k].uri = ExplicitThenImplicit[i].uri
    /\ \A k, l \in 1..Len(recOut) :
         k < l => FirstAt(recOut[k].uri) < FirstAt(recOut[l].uri)
    /\ \A k, l \in 1..Len(recOut) :
         (/\ \E i \in 1..Len(recIn[1]) : recIn[1][i].uri = recOut[k].uri
          /\ \A i \in 1..Len(recIn[1]) : recIn[1][i].uri # recOut[l].uri) => k < l

C26_Witness ==
  /\ pc = "reconciled"
  /\ Len(recIn[1]) = 2 /\ recIn[1][1].uri = "u2" /\ recIn[1][2].uri = "u2"
  /\ Len(recIn[2]) = 2 /\ recIn[2][1].web /\ recIn[2][1].uri = "u1"
  /\ recIn[2][2].web /\ recIn[2][2].uri = "u2"
  /\ Len(recOut) = 2 /\ recOut[1].uri = "u2" /\ recOut[2].uri = "u1"

\* C27: the record searchVisaInfo returns is made of the latest attempt
\* only.  Its data fields are those of the latest consultant response, its
\* sources cite exactly the URIs of that response's explicit list and
\* grounding chunks, and its Verification is the one computed in the latest
\* attempt over those very sources.
C27_RecordOfOneAttempt ==
  pc = "returned" =>
    /\ last.index = Len(log) - 1
    /\ Len(requests) = Len(log)
    /\ outcome.record.summary = Or(recIn[3].summary, "Summary not available")
    /\ outcome.record.visaStatus = Or(recIn[3].visaStatus, "unknown")
    /\ outcome.record.whatsNext = OrNone(recIn[3].whatsNext)
    /\ \A k \in 1..Len(outcome.record.sources) :
         \E i \in 1..Len(ExplicitThenImplicit) :
           ExplicitThenImplicit[i].uri = outcome.record.sources[k].uri
    /\ \A i \in 1..Len(ExplicitThenImplicit) :
         \E k \in 1..Len(outcome.record.sources) :
           outcome.record.sources[k].uri = ExplicitThenImplicit[i].uri
    /\ outcome.record.verification.score = log[Len(log)].score
    /\ outcome.record.verification.reasoning = log[Len(log)].reasoning
    /\ log[Len(log)].empty = (Len(ExplicitThenImplicit) = 0)

\* A third attempt without any citation, after two attempts that cited pages.
C27_Witness ==
  /\ pc = "returned" /\ Len(log) = 3
  /\ ~log[1].empty /\ ~log[2].empty /\ log[3].empty
  /\ outcome.record.sources = << >>
  /\ outcome.record.summary = "sumB"

\* C28: a returned record whose Verification score is at least 8 cites at
\* least one source.
C28_HighScoreHasSources ==
  (pc = "returned" /\ JsGe(outcome.record.verification.score, 8)) =>
    Len(outcome.record.sources) > 0

\* The evaluator rated an answer without citation 9: the record carries 5.
C28_Witness ==
  /\ pc = "returned" /\ Len(log) = 3
  /\ evalText = "json"
  /\ outcome.record.sources = << >>
  /\ outcome.record.verification.score = Num(5)

\* C29: a returned record without sources has a Verification whose pass
\* is false.
C29_NoSourcesNeverPasses ==
  (pc = "returned" /\ Len(outcome.record.sources) = 0) =>
    outcome.record.verification.pass = "false"

\* C30: a returned record whose Verification score is not at least 8 comes
\* after exactly three consultant requests and three evaluations.
C30_LowScoreAfterThreeAttempts ==
  (pc = "returned" /\ ~JsGe(outcome.record.verification.score, 8)) =>
    /\ Len(requests) = 3
    /\ evalCalls = 3
    /\ Len(log) = 3

C30_Witness ==
  /\ pc = "returned" /\ outcome.record.verification.score = Num(7)
  /\ Len(outcome.record.sources) > 0
  /\ Len(requests) = 3 /\ evalCalls = 3
  /\ log[1].score = Num(3) /\ log[2].score = Num(7)

\* C31: the consultant's conversation is cleared at the start of an
\* invocation and not again until the invocation is over.  The first request
\* is sent on a conversation without turns, whatever the earlier invocations
\* left; every later request is sent on the conversation that holds all the
\* earlier requests of the invocation, the initial one first.
C31_OneResetPerInvocation ==
  /\ [][ (SearchInFlight /\ SearchInFlight') =>
            /\ chat' = chat
            /\ Len(chatTurns') >= Len(chatTurns)
            /\ \A i \in 1..Len(chatTurns) : chatTurns'[i] = chatTurns[i] ]_vars
  /\ [](SearchInFlight =>
          /\ chat = "chat"
          /\ requests[1] = InitialPrompt
          /\ \A i \in 2..Len(requests) : requests[i].kind = "retry"
          /\ pc = "awaitRun" =>
               /\ Len(chatTurns) = Len(requests) - 1
               /\ \A i \in 1..Len(chatTurns) : chatTurns[i] = requests[i]
          /\ pc = "awaitEval" => chatTurns = requests)

\* The third request of an invocation, awaited on a conversation that holds
\* the first two.
C31_Witness ==
  /\ pc = "awaitRun" /\ Len(requests) = 3
  /\ requests[3].kind = "retry"
  /\ Len(chatTurns) = 2 /\ chatTurns[1] = InitialPrompt
  /\ chatTurns[2].kind = "retry"

\* C32: an invocation of searchVisaInfo whose service calls are all
\* answered comes to an end: it returns a record or raises an error.
C32_InvocationTerminates ==
  SearchInFlight ~> (/\ pc \in {"returned", "raised"}
                     /\ outcome.kind \in {"record", "error"})

\* Three attempts whose evaluations carried no score at all, then the return.
C32_Witness ==
  /\ pc = "returned" /\ Len(log) = 3
  /\ \A i \in 1..3 : log[i].score = UndefNum /\ ~log[i].empty

\* The continuation of handlePurposeSubmit runs in this step: the handler
\* that started invocation i stops awaiting.
PurposeHandlerEnds(i) ==
  /\ i \in 1..Len(invs)
  /\ invs[i].fn \in {"searchVisaInfo", "getTravelAdvisory"}
  /\ invs[i].waited /\ ~invs'[i].waited

\* C34: when handlePurposeSubmit's continuation runs, the loading flag is
\* cleared; the policy is handed to onPolicyFound (which unmounts VisaSearch)
\* exactly if both calls of the handler have resolved, and otherwise the
\* error is set and VisaSearch stays.  Nothing else hands over a policy.
C34_PolicyOnlyWhenBothSucceed ==
  [][ /\ \A i \in 1..Len(invs) :
           PurposeHandlerEnds(i) =>
             /\ ~ui'.isLoading
             /\ ~ui'.mounted <=>
                  \A j \in 1..Len(invs) :
                    invs[j].h = invs[i].h => invs'[j].st = "resolved"
             /\ ui'.mounted => ui'.error
      /\ (ui.mounted /\ ~ui'.mounted) =>
           \E i \in 1..Len(invs) : PurposeHandlerEnds(i) ]_vars

\* The search has resolved, the advisory has rejected: error, no policy.
C34_Witness ==
  /\ ui.mounted /\ ui.error /\ ~ui.isLoading
  /\ \E i, j \in 1..Len(invs) :
       /\ invs[i].h = invs[j].h
       /\ invs[i].fn = "searchVisaInfo" /\ invs[i].st = "resolved"
       /\ invs[j].fn = "getTravelAdvisory" /\ invs[j].st = "rejected"
       /\ ~invs[i].waited

\* C33: a checklist that is not empty was generated from the policy that
\* is selected now.
C33_ChecklistOfCurrentPolicy ==
  Len(app.checklistItems) > 0 =>
    /\ app.currentPolicy # NoPolicy
    /\ app.itemsOf = app.currentPolicy.id

C38_ToggleFlipsOneItem ==
  [][ (app'.clicked # 0 /\ app'.checklistItems # app.checklistItems) =>
        /\ Len(app'.checklistItems) = Len(app.checklistItems)
        /\ \A j \in 1..Len(app.checklistItems) :
             app'.checklistItems[j] =
               IF j = app'.clicked
               THEN [app.checklistItems[j] EXCEPT
                       !.completed = IF app.checklistItems[j].completed = "true"
                                     THEN "false" ELSE "true"]
               ELSE app.checklistItems[j] ]_vars

\* C35: isScanning is true as long as a scan is under way, from the choice
\* of the file to the settling of its parsePassportImage call.
C35_ScanningWhileInFlight ==
  \A i \in 1..Len(doc.scans) :
    doc.scans[i].st \in {"reading", "parsing"} => doc.isScanning

\* C36: a scan that failed has alerted the user, and a failing scan leaves
\* the form as it was.
C36_FailureAlerts ==
  /\ [](\A i \in 1..Len(doc.scans) :
          doc.scans[i].st = "failed" => doc.scans[i].alerted)
  /\ [][ \A i \in 1..Len(doc.scans) :
           (doc.scans[i].st # "failed" /\ doc'.scans[i].st = "failed") =>
             doc'.formData = doc.formData ]_vars

====
